---- MODULE Spec2Model ----
(***************************************************************************)
(* A model of gdelt-client's time-windowed multi-file retrieval pipeline:  *)
(* helpers.expand_dates (the temporal window expander) and                 *)
(* GdeltClient.search / GdeltClient.asearch (fetch orchestration, per-item *)
(* classification and merge).                                              *)
(*                                                                         *)
(* Representation.  A datetime is a record [day, hour, minute, second],    *)
(* day counted from 1970-01-01 (microseconds are never formatted and are   *)
(* left out).  A date given as a string "YYYY-MM-DD" is [y, m, d].  An     *)
(* identifier timestamp "YYYYMMDDHHMMSS" is the sequence of its 14 digits. *)
(***************************************************************************)
EXTENDS Integers, Sequences, FiniteSets, TLC

VARIABLES
    date,          \* expand_dates / search argument `date`
    coverage,      \* argument `coverage`
    now,           \* the reading of datetime.now()
    date_strings,  \* what expand_dates returned (NotReturned before it does)
    xpc,           \* position of the direct expand_dates call
    loop,          \* date_range's locals while its loop runs (NoLoop otherwise)
    json,          \* the load_json call: its arguments, its depth, what it did
    parse,         \* the direct _parse_gdelt_file call: its arguments and result
    direct,        \* a direct call of another function (validate_date,
                   \* raise_response_error, _query, _aquery): its frame and result
    table,         \* search argument `table`
    translation,   \* search argument `translation`
    output,        \* search argument `output`
    normalize_columns, \* search argument `normalize_columns`
    max_workers,   \* GdeltClient.max_workers: <<>> is None, <<k>> is k
    session,       \* GdeltClient.session: <<>> is None, <<k>> the k-th Session made
    aio_session,   \* GdeltClient.aio_session, likewise
    created,       \* how many Session / ClientSession objects were constructed
    cameo_codes,   \* GdeltClient._cameo_codes: <<>> is None, <<"cameo">> the table
    env,           \* the remote side: what fetching the i-th identifier meets
    running,       \* the call in progress: "idle", "search" or "asearch"
    urls,          \* the call's `urls`
    task,          \* position of the i-th per-item fetch of the call in progress
    calls,         \* per strategy: how often the per-item fetch ran for identifier i
    dfs,           \* per strategy: the per-item results
    warned,        \* per strategy: the warning issued for identifier i
    ret            \* per strategy: what the call returned or raised

xvars == <<date, coverage, now, date_strings, xpc>>
hvars == <<loop, json, parse, direct>>
cvars == <<table, translation, output, normalize_columns, max_workers, env>>
svars == <<session, aio_session, created, cameo_codes, running, urls, task, calls, dfs, warned,
          ret>>
vars == <<xvars, hvars, cvars, svars>>

(***************************************************************************)
(* Bounds of the model.                                                    *)
(***************************************************************************)
\* how many entries of Calendar the inputs and the clock range over
NumDays == 3
\* longest list of dates passed as `date`
MaxDates == 3
\* largest number of identifiers in one search()/asearch() batch
MaxBatch == 3
\* largest explicit max_workers (None is always among the settings)
MaxWorkers == 1
\* longest payload handed to load_json, in characters
MaxPayload == 4
\* largest max_recursion_depth handed to load_json
MaxDepth == 3
\* widest raw table handed to _parse_gdelt_file, in columns
MaxCols == 3

(***************************************************************************)
(* Calendar arithmetic of datetime (proleptic Gregorian).                  *)
(***************************************************************************)
\* days from 1970-01-01 to y-m-d: datetime(y, m, d)
DaysFromCivil(y, m, d) ==
    LET yy  == IF m <= 2 THEN y - 1 ELSE y
        era == yy \div 400
        yoe == yy - era * 400
        mp  == IF m > 2 THEN m - 3 ELSE m + 9
        doy == (153 * mp + 2) \div 5 + d - 1
        doe == yoe * 365 + yoe \div 4 - yoe \div 100 + doy
    IN  era * 146097 + doe - 719468

\* the (year, month, day) of a day number: what strftime formats
CivilFromDays(z0) ==
    LET z   == z0 + 719468
        era == z \div 146097
        doe == z - era * 146097
        yoe == (doe - doe \div 1460 + doe \div 36524 - doe \div 146096) \div 365
        doy == doe - (365 * yoe + yoe \div 4 - yoe \div 100)
        mp  == (5 * doy + 2) \div 153
        d   == doy - (153 * mp + 2) \div 5 + 1
        m   == IF mp < 10 THEN mp + 3 ELSE mp - 9
        y   == yoe + era * 400 + (IF m <= 2 THEN 1 ELSE 0)
    IN  [y |-> y, m |-> m, d |-> d]

\* n as w decimal digits, zero padded: f"{n:0wd}"
Pad(n, w) == [i \in 1..w |-> (n \div (10 ^ (w - i))) % 10]

\* dt.strftime("%Y%m%d")
strftime_Ymd(dt) ==
    LET c == CivilFromDays(dt.day)
    IN  Pad(c.y, 4) \o Pad(c.m, 2) \o Pad(c.d, 2)

\* dt.strftime("%Y%m%d%H%M%S")
strftime_YmdHMS(dt) ==
    strftime_Ymd(dt) \o Pad(dt.hour, 2) \o Pad(dt.minute, 2) \o Pad(dt.second, 2)

\* dt - timedelta(minutes=n), for 0 <= n <= 1440
MinusMinutes(dt, n) ==
    LET t == dt.hour * 60 + dt.minute - n
    IN  IF t >= 0
        THEN [dt EXCEPT !.hour = t \div 60, !.minute = t % 60]
        ELSE [dt EXCEPT !.day = dt.day - 1,
                        !.hour = (t + 1440) \div 60, !.minute = (t + 1440) % 60]

(***************************************************************************)
(* The inputs: consecutive calendar dates around a leap day.               *)
(***************************************************************************)
Calendar ==
    << [y |-> 2020, m |-> 2, d |-> 28], [y |-> 2020, m |-> 2, d |-> 29],
       [y |-> 2020, m |-> 3, d |-> 1],  [y |-> 2020, m |-> 3, d |-> 2],
       [y |-> 2020, m |-> 3, d |-> 3],  [y |-> 2020, m |-> 3, d |-> 4] >>

DayOf(c) == DaysFromCivil(c.y, c.m, c.d)

IsStr(x) == "y" \in DOMAIN x

\* a date argument: the string "YYYY-MM-DD", or a datetime object
DateStrings == { Calendar[i] : i \in 1..NumDays }
DateObjects ==
    { [day |-> DayOf(Calendar[2]), hour |-> 13, minute |-> 37, second |-> 5] }
Dates == DateStrings \cup DateObjects

\* clock readings: the times of day that exercise the 15-minute boundaries
ClockTimes ==
    { <<0, 0, 0>>, <<0, 14, 59>>, <<0, 15, 0>>, <<0, 29, 30>>, <<9, 30, 0>>,
      <<12, 7, 30>>, <<23, 44, 59>>, <<23, 45, 0>>, <<23, 59, 59>> }
Clocks ==
    { [day |-> DayOf(Calendar[i]), hour |-> t[1], minute |-> t[2], second |-> t[3]] :
        i \in {2, 3}, t \in ClockTimes }

SeqsUpTo(S, n) == UNION { [1..k -> S] : k \in 0..n }

\* `date`: a single date, or a list of dates
DateSpecs ==
    { [kind |-> "single", d |-> x] : x \in Dates }
        \cup { [kind |-> "list", ds |-> l] : l \in SeqsUpTo(Dates, MaxDates) }

(***************************************************************************)
(* helpers.py                                                              *)
(***************************************************************************)
\* (mutant) range(23) for range(24): the last hour is missing
get_15min_intervals_ShortDay ==
    [i \in 1..92 |->
        Pad((i - 1) \div 4, 2) \o Pad(((i - 1) % 4) * 15, 2) \o <<0, 0>>]

\* the 96 interval labels HHMMSS, 000000 .. 234500
get_15min_intervals ==
    [i \in 1..96 |->
        Pad((i - 1) \div 4, 2) \o Pad(((i - 1) % 4) * 15, 2) \o <<0, 0>>]

\* a datetime passes through; a string is parsed to midnight of its date
parse_date(date_input) ==
    IF IsStr(date_input)
    THEN [day |-> DayOf(date_input), hour |-> 0, minute |-> 0, second |-> 0]
    ELSE date_input

\* datetime.combine(dt.date(), time.min)
Midnight(dt) == [day |-> dt.day, hour |-> 0, minute |-> 0, second |-> 0]

\* (mutant) current.date() < end_date: the end day is left out
RECURSIVE date_range_loop_Exclusive(_, _)
date_range_loop_Exclusive(current, end_date) ==
    IF current.day < end_date
    THEN <<current>> \o date_range_loop_Exclusive([current EXCEPT !.day = current.day + 1], end_date)
    ELSE <<>>

\* the while loop of date_range: one datetime per day while current <= end
RECURSIVE date_range_loop(_, _)
date_range_loop(current, end_date) ==
    IF current.day <= end_date
    THEN <<current>> \o date_range_loop([current EXCEPT !.day = current.day + 1], end_date)
    ELSE <<>>

date_range(start, end) ==
    date_range_loop(Midnight(parse_date(start)), parse_date(end).day)

\* (mutant) len(date) >= 2: every longer list is ranged from its first to its
\* last element
normalize_dates_RangeOfEnds(dspec) ==
    IF dspec.kind = "single"
    THEN <<parse_date(dspec.d)>>
    ELSE IF Len(dspec.ds) >= 2
         THEN date_range(dspec.ds[1], dspec.ds[Len(dspec.ds)])
         ELSE [i \in 1..Len(dspec.ds) |-> parse_date(dspec.ds[i])]

\* lines 163-168: the date specification normalised to a list of datetimes
normalize_dates(dspec) ==
    IF dspec.kind = "single"
    THEN <<parse_date(dspec.d)>>
    ELSE IF Len(dspec.ds) = 2
         THEN date_range(dspec.ds[1], dspec.ds[2])
         ELSE [i \in 1..Len(dspec.ds) |-> parse_date(dspec.ds[i])]

\* (mutant) intervals[:current_interval], the interval containing now left out
coverage_intervals_NoCurrent(dt, clock) ==
    IF dt.day = clock.day
    THEN SubSeq(get_15min_intervals, 1, (clock.hour * 4) + (clock.minute \div 15))
    ELSE get_15min_intervals

\* lines 174-178: the intervals of a day under coverage=True
coverage_intervals(dt, clock) ==
    IF dt.day = clock.day
    THEN SubSeq(get_15min_intervals, 1, (clock.hour * 4) + (clock.minute \div 15) + 1)
    ELSE get_15min_intervals

\* (mutant) the test for the current day is dropped: every day is treated as today
latest_identifier_AlwaysToday(dt, clock) ==
    strftime_YmdHMS(
        MinusMinutes([clock EXCEPT !.minute = (clock.minute \div 15) * 15,
                                   !.second = 0], 15))

\* (mutant) the step back of one interval is dropped
latest_identifier_NoStepBack(dt, clock) ==
    IF dt.day = clock.day
    THEN strftime_YmdHMS([clock EXCEPT !.minute = (clock.minute \div 15) * 15,
                                       !.second = 0])
    ELSE strftime_Ymd(dt) \o <<2, 3, 4, 5, 0, 0>>

\* lines 181-187: the one identifier of a day under coverage=False
latest_identifier(dt, clock) ==
    IF dt.day = clock.day
    THEN strftime_YmdHMS(
            MinusMinutes([clock EXCEPT !.minute = (clock.minute \div 15) * 15,
                                       !.second = 0], 15))
    ELSE strftime_Ymd(dt) \o <<2, 3, 4, 5, 0, 0>>

\* lines 171-187: what one day contributes to the result
expand_day(dt, cov, clock) ==
    IF cov
    THEN LET date_str == strftime_Ymd(dt)
             day_intervals == coverage_intervals(dt, clock)
         IN  [k \in 1..Len(day_intervals) |-> date_str \o day_intervals[k]]
    ELSE <<latest_identifier(dt, clock)>>

\* (mutant) each day's identifiers are put in front of the result
RECURSIVE extend_all_Prepend(_, _, _)
extend_all_Prepend(dates, cov, clock) ==
    IF dates = <<>>
    THEN <<>>
    ELSE extend_all_Prepend(Tail(dates), cov, clock) \o expand_day(Head(dates), cov, clock)

\* lines 170-187: the for loop over the normalised dates
RECURSIVE extend_all(_, _, _)
extend_all(dates, cov, clock) ==
    IF dates = <<>>
    THEN <<>>
    ELSE expand_day(Head(dates), cov, clock) \o extend_all(Tail(dates), cov, clock)

expand_dates(dspec, cov, clock) == extend_all(normalize_dates(dspec), cov, clock)

(***************************************************************************)
(* Python values: None, a pandas DataFrame (its column labels and its      *)
(* rows), an exception object; and how a call ends: it returns a value or  *)
(* raises an exception.                                                    *)
(***************************************************************************)
None == [tag |-> "None"]
Pending == [tag |-> "pending"]
Frame(columns, rows) == [tag |-> "DataFrame", columns |-> columns, rows |-> rows]
Exc(type, msg) == [tag |-> "Exception", type |-> type, msg |-> msg]

Return(v, w) == [kind |-> "return", value |-> v, warnings |-> w]
Raise(e, w) == [kind |-> "raise", value |-> e, warnings |-> w]

\* isinstance(df, pd.DataFrame)
IsDataFrame(v) == v.tag = "DataFrame"
\* df.empty
empty(df) == df.rows = <<>> \/ df.columns = <<>>

Range(f) == { f[i] : i \in DOMAIN f }

\* the classes `except Exception` catches, among those the pipeline meets
ExceptionClasses ==
    { "ValueError", "Timeout", "ConnectionError", "HTTPError", "TimeoutError",
      "ClientResponseError", "BadZipFile", "EmptyDataError" }

(***************************************************************************)
(* validation.py                                                           *)
(***************************************************************************)
GDELT_V2_START == [day |-> DaysFromCivil(2015, 2, 18), hour |-> 0, minute |-> 0, second |-> 0]

\* datetime a < datetime b
Earlier(a, b) ==
    \/ a.day < b.day
    \/ a.day = b.day /\ a.hour * 3600 + a.minute * 60 + a.second
                            < b.hour * 3600 + b.minute * 60 + b.second

FutureDateError == Exc("ValueError", "Date is in the future. Please enter a valid date.")
BeforeStartError == Exc("ValueError", "Date is before GDELT 2.0 start date.")
RangeOrderError == Exc("ValueError", "Start date must be before end date.")

\* lines 58-66: the first date of the list that is rejected decides the error
RECURSIVE validate_each(_, _)
validate_each(dates, clock) ==
    IF dates = <<>> THEN None
    ELSE IF Earlier(clock, Head(dates)) THEN FutureDateError
    ELSE IF Earlier(Head(dates), GDELT_V2_START) THEN BeforeStartError
    ELSE validate_each(Tail(dates), clock)

\* (mutant) dates[0] > dates[1]: a range of one instant is let through
validate_date_AllowsEqual(dspec, clock) ==
    LET dates == IF dspec.kind = "single"
                 THEN <<parse_date(dspec.d)>>
                 ELSE [i \in 1..Len(dspec.ds) |-> parse_date(dspec.ds[i])]
        each == validate_each(dates, clock)
    IN  IF each # None THEN each
        ELSE IF Len(dates) = 2 /\ Earlier(dates[2], dates[1]) THEN RangeOrderError
        ELSE None

\* None when validate_date returns, the ValueError when it raises
validate_date(dspec, clock) ==
    LET dates == IF dspec.kind = "single"
                 THEN <<parse_date(dspec.d)>>
                 ELSE [i \in 1..Len(dspec.ds) |-> parse_date(dspec.ds[i])]
        each == validate_each(dates, clock)
    IN  IF each # None THEN each
        ELSE IF Len(dates) = 2 /\ ~Earlier(dates[1], dates[2]) THEN RangeOrderError
        ELSE None

\* the values of GdeltTable
GdeltTables == { "events", "mentions", "gkg" }

InvalidTableError == Exc("ValueError", "Invalid table. Must be one of: events, mentions, gkg")

validate_table(tbl, trans) ==
    IF tbl \notin GdeltTables THEN InvalidTableError ELSE None

\* helpers.py line 47: what load_json raises when max_recursion_depth is reached
MaxDepthError == Exc("ValueError", "Max recursion depth reached while parsing JSON.")

(***************************************************************************)
(* api_client.py: URLs, schema, parsing                                    *)
(***************************************************************************)
GDELT_BASE_URL == "http://data.gdeltproject.org/gdeltv2/"

\* (mutant) the gkg suffix spelt like the other two
build_urls_GkgUpper(dstrings, tbl, trans) ==
    LET suffix == CASE tbl = "events" ->
                         IF ~trans THEN ".export.CSV.zip" ELSE ".translation.export.CSV.zip"
                    [] tbl = "mentions" ->
                         IF ~trans THEN ".mentions.CSV.zip" ELSE ".translation.mentions.CSV.zip"
                    [] tbl = "gkg" ->
                         IF ~trans THEN ".gkg.CSV.zip" ELSE ".translation.gkg.CSV.zip"
    IN  [i \in 1..Len(dstrings) |->
            [base |-> GDELT_BASE_URL, ts |-> dstrings[i], suffix |-> suffix]]

\* lines 374-388: a URL is the base, the timestamp and the suffix, in this order
build_urls(dstrings, tbl, trans) ==
    LET suffix == CASE tbl = "events" ->
                         IF ~trans THEN ".export.CSV.zip" ELSE ".translation.export.CSV.zip"
                    [] tbl = "mentions" ->
                         IF ~trans THEN ".mentions.CSV.zip" ELSE ".translation.mentions.CSV.zip"
                    [] tbl = "gkg" ->
                         IF ~trans THEN ".gkg.csv.zip" ELSE ".translation.gkg.csv.zip"
    IN  [i \in 1..Len(dstrings) |->
            [base |-> GDELT_BASE_URL, ts |-> dstrings[i], suffix |-> suffix]]

\* the column names of a table kind (a few of each schema file's names)
load_schema(tbl) ==
    CASE tbl = "events"   -> <<"GLOBALEVENTID", "EventCode", "ActionGeo_Lat", "ActionGeo_Long">>
      [] tbl = "mentions" -> <<"GLOBALEVENTID", "MentionType", "Confidence">>
      [] tbl = "gkg"      -> <<"GKGRECORDID", "DATE", "V2Tone">>

\* what the remote side can answer to the GET of one identifier
Response(status, body) == [kind |-> "response", status |-> status, body |-> body]
Failure(exc) == [kind |-> "exception", status |-> 0, body |-> exc]
Outcomes ==
    { Response(200, "rows"), Response(200, "empty"), Response(200, "corrupt"),
      Response(404, "none"), Response(500, "none"), Failure("Timeout") }

\* the rows of the file published for the i-th identifier of the batch
FileRows(i) == [r \in 1..(1 + (i % 2)) |-> <<i, r>>]

\* response.content: the archive served for the i-th identifier
Content(i, outcome, columns) ==
    [body |-> outcome.body, ncols |-> Len(columns),
     rows |-> IF outcome.body = "rows" THEN FileRows(i) ELSE <<>>]

\* pandas' default labels 0 .. n-1
Unlabeled(n) == [k \in 1..n |-> ToString(k - 1)]

\* (mutant) a schema longer than the table by any number of names is cut to
\* the table's width
parse_gdelt_file_CutAny(data, tbl, columns) ==
    IF data.body = "corrupt"
    THEN Raise(Exc("BadZipFile", "File is not a zip file"), {})
    ELSE IF data.ncols <= Len(columns)
         THEN Return(Frame(SubSeq(columns, 1, data.ncols), data.rows), {})
    ELSE Return(Frame(Unlabeled(data.ncols), data.rows), {"Column count mismatch"})

\* lines 446-473: read_csv raises on an archive it cannot read; otherwise the
\* frame is labelled from the schema when the column counts allow it
parse_gdelt_file(data, tbl, columns) ==
    IF data.body = "corrupt"
    THEN Raise(Exc("BadZipFile", "File is not a zip file"), {})
    ELSE IF data.ncols = Len(columns)
         THEN Return(Frame(columns, data.rows), {})
    ELSE IF data.ncols = Len(columns) - 1
         THEN Return(Frame(SubSeq(columns, 1, Len(columns) - 1), data.rows), {})
    ELSE Return(Frame(Unlabeled(data.ncols), data.rows), {"Column count mismatch"})

\* response.raise_for_status(): TRUE when it raises
raise_for_status(status) == status >= 400 /\ status < 600

\* lines 401-409: the body of the try statement of _download_and_parse
download_try(i, outcome, tbl, columns) ==
    IF outcome.kind = "exception"
    THEN Raise(Exc(outcome.body, "session.get failed"), {})
    ELSE IF outcome.status = 404
         THEN Return(None, {"No data available"})
    ELSE IF raise_for_status(outcome.status)
         THEN Raise(Exc("HTTPError", "bad status"), {})
    ELSE parse_gdelt_file(Content(i, outcome, columns), tbl, columns)

\* (mutant) except requests.RequestException: an unreadable archive escapes
handles_OnlyRequestErrors(e) == e.type \in { "Timeout", "ConnectionError", "HTTPError" }

\* line 411 / line 435: except Exception
handles(e) == e.type \in ExceptionClasses

\* lines 390-413
download_and_parse(i, outcome, tbl, columns) ==
    LET r == download_try(i, outcome, tbl, columns)
    IN  IF r.kind = "raise" /\ handles(r.value)
        THEN Return(None, r.warnings \cup {"Failed to download"})
        ELSE r

\* lines 425-433: the body of the try statement of _adownload_and_parse
adownload_try(i, outcome, tbl, columns) ==
    IF outcome.kind = "exception"
    THEN Raise(Exc(outcome.body, "aio_session.get failed"), {})
    ELSE IF outcome.status = 404
         THEN Return(None, {"No data available"})
    ELSE IF raise_for_status(outcome.status)
         THEN Raise(Exc("ClientResponseError", "bad status"), {})
    ELSE parse_gdelt_file(Content(i, outcome, columns), tbl, columns)

\* (mutant) the try statement has lost its except clause
adownload_and_parse_NoExcept(i, outcome, tbl, columns) ==
    adownload_try(i, outcome, tbl, columns)

\* lines 415-437
adownload_and_parse(i, outcome, tbl, columns) ==
    LET r == adownload_try(i, outcome, tbl, columns)
    IN  IF r.kind = "raise" /\ handles(r.value)
        THEN Return(None, r.warnings \cup {"Failed to download"})
        ELSE r

(***************************************************************************)
(* api_client.py: merge (lines 273-292)                                    *)
(***************************************************************************)
\* (mutant) the message of another ValueError pasted in
NoDataError_Pasted == Exc("ValueError", "Start date must be before end date.")

NoDataError == Exc("ValueError", "No data returned for the specified date(s).")

\* the labels of b that a lacks, in b's order
RECURSIVE NewLabels(_, _)
NewLabels(a, b) ==
    IF b = <<>> THEN <<>>
    ELSE IF Head(b) \in Range(a) THEN NewLabels(a, Tail(b))
    ELSE <<Head(b)>> \o NewLabels(a \o <<Head(b)>>, Tail(b))

\* pd.concat(frames, ignore_index=True), frames non-empty
RECURSIVE concat(_)
concat(frames) ==
    IF Len(frames) = 1 THEN Head(frames)
    ELSE LET rest == concat(Tail(frames))
         IN  Frame(Head(frames).columns \o NewLabels(Head(frames).columns, rest.columns),
                   Head(frames).rows \o rest.rows)

\* lines 475-486
add_cameo_descriptions(df) ==
    IF "EventCode" \notin Range(df.columns) THEN df
    ELSE LET at == CHOOSE k \in DOMAIN df.columns : df.columns[k] = "EventCode"
         IN  Frame(SubSeq(df.columns, 1, at) \o <<"CAMEOCodeDescription">>
                       \o SubSeq(df.columns, at + 1, Len(df.columns)),
                   df.rows)

\* the first exception among the per-item results, in order (None if none raised)
FirstRaised(results) ==
    IF \E i \in DOMAIN results : results[i].kind = "raise"
    THEN results[CHOOSE i \in DOMAIN results :
                    /\ results[i].kind = "raise"
                    /\ \A j \in 1..(i - 1) : results[j].kind # "raise"].value
    ELSE None

Values(results) == [i \in DOMAIN results |-> results[i].value]

\* (mutant) line 286 without `or results.empty`
no_data_OnlyNone(results) == results = None

\* line 286 / line 331: results is None or results.empty
no_data(results) == results = None \/ empty(results)

\* (mutant) line 280 keeps the frames from the second on
valid_dfs_DropFirst(frames) ==
    LET kept == SelectSeq(frames, LAMBDA df : df # None /\ ~empty(df))
    IN  SubSeq(kept, 2, Len(kept))

\* line 280: the frames search() keeps
valid_dfs(frames) == SelectSeq(frames, LAMBDA df : df # None /\ ~empty(df))

\* line 325: the frames asearch() keeps
avalid_dfs(frames) == SelectSeq(frames, LAMBDA df : IsDataFrame(df) /\ ~empty(df))

\* the names OutputFormat(...) accepts
OutputFormats == { "df", "json", "csv", "gpd" }

\* GdeltTable(name) / OutputFormat(name) on a name the enum does not have
InvalidNameError(name, enum) == Exc("ValueError", "'" \o name \o "' is not a valid " \o enum)

\* col.replace("_", "").lower() on the labels the model has
Normalized(col) ==
    CASE col = "GLOBALEVENTID" -> "globaleventid"
      [] col = "EventCode" -> "eventcode"
      [] col = "CAMEOCodeDescription" -> "cameocodedescription"
      [] col = "ActionGeo_Lat" -> "actiongeolat"
      [] col = "ActionGeo_Long" -> "actiongeolong"
      [] col = "MentionType" -> "mentiontype"
      [] col = "Confidence" -> "confidence"
      [] col = "GKGRECORDID" -> "gkgrecordid"
      [] col = "DATE" -> "date"
      [] col = "V2Tone" -> "v2tone"
      [] OTHER -> col

normalized(columns) == [k \in DOMAIN columns |-> Normalized(columns[k])]

\* the integer labels pandas gives an unlabelled frame: they have no replace()
IntLabels == { ToString(k) : k \in 0..9 }

\* df.to_json(orient="records"): one record per row
to_json(df) ==
    [tag |-> "json",
     records |-> [k \in DOMAIN df.rows |-> [keys |-> df.columns, values |-> df.rows[k]]]]

\* df.to_csv(index=False): the header line, then one line per row
to_csv(df) == [tag |-> "csv", lines |-> <<df.columns>> \o df.rows]

GeoFrame(columns, rows) == [tag |-> "GeoDataFrame", columns |-> columns, rows |-> rows]

GeoColumnsError ==
    Exc("ValueError", "DataFrame must contain latitude and longitude columns")

\* the remote data: in a file the row numbered 2 carries ActionGeo_Lat and
\* ActionGeo_Long, the row numbered 1 has them empty (NaN once parsed)
notna(row) == row[2] = 2

\* lines 510-540, geopandas and shapely installed
to_geodataframe(df) ==
    LET lat_col == IF "ActionGeo_Lat" \in Range(df.columns) THEN "ActionGeo_Lat"
                   ELSE "actiongeolat"
        lon_col == IF "ActionGeo_Long" \in Range(df.columns) THEN "ActionGeo_Long"
                   ELSE "actiongeolong"
    IN  IF lat_col \notin Range(df.columns) \/ lon_col \notin Range(df.columns)
        THEN Raise(GeoColumnsError, {})
        ELSE Return(GeoFrame(normalized(df.columns) \o <<"geometry">>,
                             SelectSeq(df.rows, notna)), {})

\* lines 488-508
format_output(df, out, norm) ==
    IF norm /\ \E k \in DOMAIN df.columns : df.columns[k] \in IntLabels
    THEN Raise(Exc("AttributeError", "'int' object has no attribute 'replace'"), {})
    ELSE LET d == Frame(IF norm THEN normalized(df.columns) ELSE df.columns, df.rows)
         IN  CASE out = "json" -> Return(to_json(d), {})
               [] out = "csv" -> Return(to_csv(d), {})
               [] out = "gpd" -> to_geodataframe(d)
               [] OTHER -> Return(d, {})

\* lines 286-292
finish(results, tbl, out, norm) ==
    IF no_data(results) THEN Raise(NoDataError, {})
    ELSE format_output(IF tbl = "events" THEN add_cameo_descriptions(results) ELSE results,
                       out, norm)

\* lines 128-133 and 481: the call went through _add_cameo_descriptions and
\* that read self.cameo_codes; r is how the call ends with output "df"
reads_cameo_codes(r) ==
    r.kind = "return" /\ "CAMEOCodeDescription" \in Range(r.value.columns)

\* lines 273-292: executor.map re-raises what a per-item call raised
search_tail(results, tbl, out, norm) ==
    IF Len(results) = 1
    THEN IF results[1].kind = "raise" THEN Raise(results[1].value, {})
         ELSE finish(results[1].value, tbl, out, norm)
    ELSE IF FirstRaised(results) # None THEN Raise(FirstRaised(results), {})
    ELSE LET valid == valid_dfs(Values(results))
         IN  IF valid = <<>> THEN Raise(NoDataError, {})
             ELSE finish(concat(valid), tbl, out, norm)

\* lines 319-337: gather(return_exceptions=True) hands exceptions over as results
asearch_tail(results, tbl, out, norm) ==
    IF Len(results) = 1
    THEN IF results[1].kind = "raise" THEN Raise(results[1].value, {})
         ELSE finish(results[1].value, tbl, out, norm)
    ELSE LET valid == avalid_dfs(Values(results))
         IN  IF valid = <<>> THEN Raise(NoDataError, {})
             ELSE finish(concat(valid), tbl, out, norm)

(***************************************************************************)
(* SpecExpand: expand_dates called directly, on every date specification,  *)
(* coverage flag and clock reading of the bounds.                          *)
(***************************************************************************)
Strategies == { "search", "asearch" }

\* the client as constructed and not in use
ClientIdle ==
    /\ session = <<>> /\ aio_session = <<>>
    /\ created = [session |-> 0, aio_session |-> 0]
    /\ cameo_codes = <<>>
    /\ running = "idle"
    /\ urls = <<>> /\ task = <<>>
    /\ calls = [s \in Strategies |-> <<>>]
    /\ dfs = [s \in Strategies |-> <<>>]
    /\ warned = [s \in Strategies |-> <<>>]
    /\ ret = [s \in Strategies |-> Pending]

\* date_strings before expand_dates has returned: no list of identifiers
NotReturned == << <<>> >>

\* no helper is being stepped through
NoLoop == [tag |-> "none"]
NoJson == [tag |-> "none"]
NoParse == [tag |-> "none"]
NoDirect == [tag |-> "none"]
HelpersIdle == loop = NoLoop /\ json = NoJson /\ parse = NoParse /\ direct = NoDirect

ExpandInit ==
    /\ date \in DateSpecs
    /\ coverage \in BOOLEAN
    /\ now \in Clocks
    /\ date_strings = NotReturned
    /\ xpc = "call"
    /\ HelpersIdle
    /\ table = "events" /\ translation = FALSE
    /\ max_workers = <<>> /\ env = <<>>
    /\ output = "df" /\ normalize_columns = FALSE
    /\ ClientIdle

Expand ==
    /\ xpc = "call"
    /\ date_strings' = expand_dates(date, coverage, now)
    /\ xpc' = "returned"
    /\ UNCHANGED <<date, coverage, now, hvars, cvars, svars>>

ExpandNext == Expand

SpecExpand == ExpandInit /\ [][ExpandNext]_vars

(***************************************************************************)
(* json.loads, on documents over a six-character alphabet: the quote, the  *)
(* backslash, the letter u, the digit 1, the blank and one control         *)
(* character (U+0001).  The documents it accepts are a string literal or a *)
(* number, blanks around it.  A decoded string is its characters, a        *)
(* decoded \uXXXX the character "U+", a decoded number its digits.         *)
(* Positions are 0-based as in JSONDecodeError.pos, indices 1-based.       *)
(***************************************************************************)
Quote == "\""
Backslash == "\\"
Ctrl == "^A"
Alphabet == { Quote, Backslash, "u", "1", " ", Ctrl }

JSONDecodeError(msg, pos) == [ok |-> FALSE, msg |-> msg, pos |-> pos]
Decoded(value, end) == [ok |-> TRUE, value |-> value, end |-> end]

\* the index of the first character from i on that is not c
RECURSIVE skip(_, _, _)
skip(s, c, i) == IF i <= Len(s) /\ s[i] = c THEN skip(s, c, i + 1) ELSE i

\* scanstring: the literal whose opening quote is at position begin, read
\* from index i on, acc the characters decoded so far
RECURSIVE scanstring(_, _, _, _)
scanstring(s, i, begin, acc) ==
    IF i > Len(s) THEN JSONDecodeError("Unterminated string starting at", begin)
    ELSE IF s[i] = Quote THEN Decoded(acc, i + 1)
    ELSE IF s[i] = Ctrl THEN JSONDecodeError("Invalid control character at", i - 1)
    ELSE IF s[i] # Backslash THEN scanstring(s, i + 1, begin, Append(acc, s[i]))
    ELSE IF i + 1 > Len(s)
         THEN JSONDecodeError("Unterminated string starting at", begin)
    ELSE IF s[i + 1] \in { Quote, Backslash }
         THEN scanstring(s, i + 2, begin, Append(acc, s[i + 1]))
    ELSE IF s[i + 1] # "u" THEN JSONDecodeError("Invalid \\escape", i - 1)
    ELSE IF i + 5 <= Len(s) /\ \A k \in (i + 2)..(i + 5) : s[k] = "1"
         THEN scanstring(s, i + 6, begin, Append(acc, "U+"))
    ELSE JSONDecodeError("Invalid \\uXXXX escape", i)

\* scan_once at index i: a string, a number, or no value
scan_once(s, i) ==
    IF i > Len(s) THEN JSONDecodeError("Expecting value", i - 1)
    ELSE IF s[i] = Quote THEN scanstring(s, i + 1, i - 1, <<>>)
    ELSE IF s[i] = "1"
         THEN Decoded(SubSeq(s, i, skip(s, "1", i) - 1), skip(s, "1", i))
    ELSE JSONDecodeError("Expecting value", i - 1)

\* JSONDecoder.decode: one value, blanks around it, nothing after
json_loads(s) ==
    LET r == scan_once(s, skip(s, " ", 1))
    IN  IF ~r.ok THEN r
        ELSE IF skip(s, " ", r.end) <= Len(s)
             THEN JSONDecodeError("Extra data", skip(s, " ", r.end) - 1)
             ELSE r

(***************************************************************************)
(* helpers.load_json, one level of its recursion per step.                 *)
(***************************************************************************)
\* (mutant) recursion_depth > max_recursion_depth
gives_up_Late(recursion_depth, max_recursion_depth) ==
    recursion_depth > max_recursion_depth

\* line 46
gives_up(recursion_depth, max_recursion_depth) ==
    recursion_depth >= max_recursion_depth

\* line 49: the last word of the message, "N)", without its parenthesis
idx_to_replace(e) == e.pos

\* (mutant) the offending character is cut out, no blank put in its place
fixed_message_Cut(message_str, idx) ==
    SubSeq(message_str, 1, idx) \o SubSeq(message_str, idx + 2, Len(message_str))

\* line 50: message_str[:idx] + " " + message_str[idx + 1:]
fixed_message(message_str, idx) ==
    SubSeq(message_str, 1, idx) \o <<" ">> \o SubSeq(message_str, idx + 2, Len(message_str))

\* what bytes.decode() raises for bytes that are not UTF-8, a ValueError
UnicodeDecodeError == Exc("UnicodeDecodeError", "'utf-8' codec can't decode byte")

\* the payloads: every text up to MaxPayload characters, as str or as UTF-8
\* bytes, and bytes that are not UTF-8
Payloads ==
    { [text |-> t, utf8 |-> TRUE] : t \in SeqsUpTo(Alphabet, MaxPayload) }
        \cup { [text |-> <<>>, utf8 |-> FALSE] }

\* load_json(json_message, max_recursion_depth) has been called
JsonCalls ==
    { [json_message |-> p, max_recursion_depth |-> m, recursion_depth |-> 0,
       payload |-> p, tries |-> 0, repairs |-> 0, positions |-> <<>>,
       result |-> Pending] : p \in Payloads, m \in 0..MaxDepth }

JsonInit ==
    /\ json \in JsonCalls
    /\ loop = NoLoop /\ parse = NoParse /\ direct = NoDirect
    /\ date = [kind |-> "list", ds |-> <<>>]
    /\ coverage = FALSE
    /\ now \in { c \in Clocks : c.hour = 0 /\ c.minute = 0 /\ c.day = DayOf(Calendar[2]) }
    /\ date_strings = NotReturned
    /\ xpc = "idle"
    /\ table = "events" /\ translation = FALSE
    /\ max_workers = <<>> /\ env = <<>>
    /\ output = "df" /\ normalize_columns = FALSE
    /\ ClientIdle

\* lines 42-44: the try block of the current level
attempt == IF json.json_message.utf8 THEN json_loads(json.json_message.text)
           ELSE [ok |-> FALSE]

JsonUnchanged ==
    UNCHANGED <<xvars, loop, parse, direct, cvars, svars>>

\* lines 42-44: the message decodes, and its value is returned through every
\* level
LoadJsonReturn ==
    /\ json # NoJson /\ json.result = Pending
    /\ attempt.ok
    /\ json' = [json EXCEPT !.tries = @ + 1,
                            !.result = Return(attempt.value, {})]
    /\ JsonUnchanged

\* lines 45-47: the message does not decode and the depth is used up
LoadJsonGiveUp ==
    /\ json # NoJson /\ json.result = Pending
    /\ ~attempt.ok
    /\ gives_up(json.recursion_depth, json.max_recursion_depth)
    /\ json' = [json EXCEPT !.tries = @ + 1,
                            !.result = Raise(MaxDepthError, {})]
    /\ JsonUnchanged

\* lines 48-51: the character at the reported position is replaced by a blank
\* and load_json calls itself one level deeper; bytes that are not UTF-8
\* raise from line 48 instead
LoadJsonRepair ==
    /\ json # NoJson /\ json.result = Pending
    /\ ~attempt.ok
    /\ ~gives_up(json.recursion_depth, json.max_recursion_depth)
    /\ IF ~json.json_message.utf8
       THEN json' = [json EXCEPT !.tries = @ + 1,
                                 !.result = Raise(UnicodeDecodeError, {})]
       ELSE json' = [json EXCEPT
                !.tries = @ + 1,
                !.repairs = @ + 1,
                !.positions = Append(@, idx_to_replace(attempt)),
                !.recursion_depth = @ + 1,
                !.json_message =
                    [text |-> fixed_message(json.json_message.text, idx_to_replace(attempt)),
                     utf8 |-> TRUE]]
    /\ JsonUnchanged

JsonNext == LoadJsonReturn \/ LoadJsonGiveUp \/ LoadJsonRepair

SpecJson == JsonInit /\ [][JsonNext]_vars

\* load_json runs on its caller's thread and waits for nothing
FairSpecJson == SpecJson /\ WF_vars(JsonNext)

(***************************************************************************)
(* SpecUrls: _build_urls called on its own, with the identifiers of an     *)
(* expansion, for every table and both values of translation.              *)
(***************************************************************************)
\* identifier lists: what expand_dates gives without coverage
IdentifierLists ==
    { expand_dates(d, FALSE, c) : d \in DateSpecs,
                                  c \in { k \in Clocks : k.hour = 0 /\ k.minute = 0 } }

UrlsInit ==
    /\ date_strings \in IdentifierLists
    /\ table \in GdeltTables
    /\ translation \in BOOLEAN
    /\ date = [kind |-> "list", ds |-> <<>>]
    /\ coverage = FALSE
    /\ now \in { c \in Clocks : c.hour = 0 /\ c.minute = 0 /\ c.day = DayOf(Calendar[2]) }
    /\ xpc = "call"
    /\ HelpersIdle
    /\ max_workers = <<>> /\ env = <<>>
    /\ output = "df" /\ normalize_columns = FALSE
    /\ ClientIdle

\* lines 374-388
BuildUrls ==
    /\ xpc = "call"
    /\ urls' = build_urls(date_strings, table, translation)
    /\ xpc' = "returned"
    /\ UNCHANGED <<date, coverage, now, date_strings, hvars, cvars, cameo_codes, session, aio_session,
                   created, running, task, calls, dfs, warned, ret>>

UrlsNext == BuildUrls

SpecUrls == UrlsInit /\ [][UrlsNext]_vars

(***************************************************************************)
(* SpecValidate: validate_date called on its own, on dates around the      *)
(* GDELT 2.0 start as well as around the clock.                            *)
(***************************************************************************)
\* the day before the GDELT 2.0 start, its last second, and the start itself
StartDates ==
    { [y |-> 2015, m |-> 2, d |-> 17], [y |-> 2015, m |-> 2, d |-> 18],
      [day |-> DaysFromCivil(2015, 2, 17), hour |-> 23, minute |-> 59, second |-> 59] }

ValidateArgs ==
    { [kind |-> "single", d |-> x] : x \in Dates \cup StartDates }
        \cup { [kind |-> "list", ds |-> l] : l \in SeqsUpTo(Dates \cup StartDates, MaxDates) }

\* how a function that returns nothing ends: it returns None, or raises
Outcome(err) == IF err = None THEN Return(None, {}) ELSE Raise(err, {})

ValidateInit ==
    /\ date \in ValidateArgs
    /\ now \in { c \in Clocks : c.minute = 0 }
    /\ direct = [fn |-> "validate_date", result |-> Pending]
    /\ coverage = FALSE
    /\ date_strings = NotReturned
    /\ xpc = "idle"
    /\ loop = NoLoop /\ json = NoJson /\ parse = NoParse
    /\ table = "events" /\ translation = FALSE
    /\ max_workers = <<>> /\ env = <<>>
    /\ output = "df" /\ normalize_columns = FALSE
    /\ ClientIdle

\* validation.py lines 35-69
ValidateDate ==
    /\ direct # NoDirect /\ direct.fn = "validate_date" /\ direct.result = Pending
    /\ direct' = [direct EXCEPT !.result = Outcome(validate_date(date, now))]
    /\ UNCHANGED <<xvars, loop, json, parse, cvars, svars>>

ValidateNext == ValidateDate

SpecValidate == ValidateInit /\ [][ValidateNext]_vars

(***************************************************************************)
(* errors.py: raise_response_error, and SpecErrors, which calls it on its  *)
(* own with every status code 0 .. MaxStatus.                              *)
(***************************************************************************)
MaxStatus == 700

StatusCodes == 0..MaxStatus

\* GdeltAPIError.__init__ (lines 10-13): the message names the status
GdeltAPIError(class, status) == Exc(class, "HTTP " \o ToString(status))

\* (mutant) the branch of status 429 is missing
raise_response_error_NoRateLimit(status) ==
    IF status = 200 THEN None
    ELSE IF status = 400 THEN GdeltAPIError("BadRequestError", status)
    ELSE IF status = 404 THEN GdeltAPIError("NotFoundError", status)
    ELSE IF status >= 400 /\ status < 500 THEN GdeltAPIError("ClientRequestError", status)
    ELSE IF status >= 500 /\ status < 600 THEN GdeltAPIError("ServerError", status)
    ELSE GdeltAPIError("GdeltAPIError", status)

\* lines 36-57: None when it returns, the exception when it raises
raise_response_error(status) ==
    IF status = 200 THEN None
    ELSE IF status = 400 THEN GdeltAPIError("BadRequestError", status)
    ELSE IF status = 404 THEN GdeltAPIError("NotFoundError", status)
    ELSE IF status = 429 THEN GdeltAPIError("RateLimitError", status)
    ELSE IF status >= 400 /\ status < 500 THEN GdeltAPIError("ClientRequestError", status)
    ELSE IF status >= 500 /\ status < 600 THEN GdeltAPIError("ServerError", status)
    ELSE GdeltAPIError("GdeltAPIError", status)

ErrorsInit ==
    /\ direct \in { [fn |-> "raise_response_error", status |-> c, result |-> Pending] :
                       c \in StatusCodes }
    /\ date = [kind |-> "list", ds |-> <<>>]
    /\ coverage = FALSE
    /\ now \in { c \in Clocks : c.hour = 0 /\ c.minute = 0 /\ c.day = DayOf(Calendar[2]) }
    /\ date_strings = NotReturned
    /\ xpc = "idle"
    /\ loop = NoLoop /\ json = NoJson /\ parse = NoParse
    /\ table = "events" /\ translation = FALSE
    /\ max_workers = <<>> /\ env = <<>>
    /\ output = "df" /\ normalize_columns = FALSE
    /\ ClientIdle

\* errors.py lines 36-57
RaiseResponseError ==
    /\ direct # NoDirect /\ direct.fn = "raise_response_error" /\ direct.result = Pending
    /\ direct' = [direct EXCEPT !.result = Outcome(raise_response_error(direct.status))]
    /\ UNCHANGED <<xvars, loop, json, parse, cvars, svars>>

ErrorsNext == RaiseResponseError

SpecErrors == ErrorsInit /\ [][ErrorsNext]_vars

(***************************************************************************)
(* SpecQuery: one DOC API query, _query (api_client.py lines 173-188) or   *)
(* _aquery (lines 200-220), on a client as constructed.  `direct` is the   *)
(* frame of the call: the statement it has reached, the response it        *)
(* obtained, the checks it has made, in order, and whether                 *)
(* response.release() has been called; `json` is the frame of load_json    *)
(* once the query has called it.                                           *)
(***************************************************************************)
MaxBody == 1

\* response.content: texts of at most MaxBody characters, and bytes that are
\* not UTF-8
QueryBodies == { p \in Payloads : Len(p.text) <= MaxBody }

\* the content-type header, in parts; <<>> when the header is missing
ContentTypes ==
    { <<>>, <<"application/json">>, <<"text/html">>, <<"text/html", "; charset=UTF-8">> }

QueryStatuses == { 200, 302, 400, 403, 404, 429, 500 }

HttpResponse(status, content_type, content) ==
    [kind |-> "response", status |-> status, content_type |-> content_type,
     content |-> content]

\* what the GET can give: a response, or an exception of the HTTP library
QueryOutcomes ==
    { HttpResponse(c, t, b) : c \in QueryStatuses, t \in ContentTypes, b \in QueryBodies }
        \cup { Failure("ConnectionError") }

InvalidQueryError == Exc("ValueError", "Invalid query. API error: ")
ParseFailedError == Exc("ValueError", "Failed to parse JSON response from API")

\* (mutant) content-type == "text/html"
contains_text_html_Exact(content_type) == content_type = <<"text/html">>

\* line 185 / line 210: "text/html" in content_type
contains_text_html(content_type) ==
    \E k \in 1..Len(content_type) : content_type[k] = "text/html"

\* except ValueError (line 217): the classes of the model that are ValueErrors
IsValueError(e) == e.type \in { "ValueError", "UnicodeDecodeError" }

QueryInit ==
    /\ direct \in { [fn |-> f, max_depth_json_parsing |-> m, pc |-> "call",
                      response |-> None, steps |-> <<>>, released |-> FALSE,
                      result |-> Pending] :
                        f \in { "_query", "_aquery" }, m \in 0..MaxDepth }
    /\ date = [kind |-> "list", ds |-> <<>>]
    /\ coverage = FALSE
    /\ now \in { c \in Clocks : c.hour = 0 /\ c.minute = 0 /\ c.day = DayOf(Calendar[2]) }
    /\ date_strings = NotReturned
    /\ xpc = "idle"
    /\ loop = NoLoop /\ json = NoJson /\ parse = NoParse
    /\ table = "events" /\ translation = FALSE
    /\ max_workers = <<>> /\ env = <<>>
    /\ output = "df" /\ normalize_columns = FALSE
    /\ ClientIdle

InQuery(pc) ==
    direct # NoDirect /\ direct.fn \in { "_query", "_aquery" } /\ direct.pc = pc

QueryUnchanged ==
    UNCHANGED <<xvars, loop, parse, cvars, cameo_codes, running, urls, task, calls, dfs, warned, ret>>

\* lines 175-177 / 202-203: the session is created on first use
QueryStart ==
    /\ InQuery("call")
    /\ IF direct.fn = "_query"
       THEN /\ IF session = <<>>
               THEN /\ created' = [created EXCEPT !.session = @ + 1]
                    /\ session' = <<created.session + 1>>
               ELSE UNCHANGED <<created, session>>
            /\ UNCHANGED aio_session
       ELSE /\ IF aio_session = <<>>
               THEN /\ created' = [created EXCEPT !.aio_session = @ + 1]
                    /\ aio_session' = <<created.aio_session + 1>>
               ELSE UNCHANGED <<created, aio_session>>
            /\ UNCHANGED session
    /\ direct' = [direct EXCEPT !.pc = "get"]
    /\ UNCHANGED json
    /\ QueryUnchanged

\* lines 179-181 / 205: the GET answers, or raises
QueryGet ==
    /\ InQuery("get")
    /\ \E o \in QueryOutcomes :
          IF o.kind = "exception"
          THEN direct' = [direct EXCEPT !.pc = "done",
                                        !.result = Raise(Exc(o.body, "get failed"), {})]
          ELSE direct' = [direct EXCEPT !.pc = "status", !.response = o]
    /\ UNCHANGED <<json, session, aio_session, created>>
    /\ QueryUnchanged

\* line 183 / 207: raise_response_error(response=response)
QueryStatus ==
    /\ InQuery("status")
    /\ LET err == raise_response_error(direct.response.status)
       IN  direct' = [direct EXCEPT
               !.steps = Append(@, "status"),
               !.pc = IF err = None THEN "content-type" ELSE "done",
               !.result = IF err = None THEN @ ELSE Raise(err, {})]
    /\ UNCHANGED <<json, session, aio_session, created>>
    /\ QueryUnchanged

\* lines 185-186 / 209-212: an HTML body is the API's error message
QueryContentType ==
    /\ InQuery("content-type")
    /\ LET html == contains_text_html(direct.response.content_type)
       IN  direct' = [direct EXCEPT
               !.steps = Append(@, "content-type"),
               !.pc = IF html THEN "done" ELSE "decode",
               !.result = IF html THEN Raise(InvalidQueryError, {}) ELSE @]
    /\ UNCHANGED <<json, session, aio_session, created>>
    /\ QueryUnchanged

\* line 188 / lines 215-216: load_json is called on the body
QueryDecode ==
    /\ InQuery("decode")
    /\ direct' = [direct EXCEPT !.steps = Append(@, "decode"), !.pc = "load_json"]
    /\ json' = [json_message |-> direct.response.content,
                max_recursion_depth |-> direct.max_depth_json_parsing,
                recursion_depth |-> 0,
                payload |-> direct.response.content,
                tries |-> 0, repairs |-> 0, positions |-> <<>>,
                result |-> Pending]
    /\ UNCHANGED <<session, aio_session, created>>
    /\ QueryUnchanged

\* load_json has ended.  line 188: _query ends as load_json did; lines
\* 216-220: _aquery returns its value, turns a ValueError into its own, and
\* its finally clause releases the response
QueryReturn ==
    /\ InQuery("load_json")
    /\ json.result # Pending
    /\ direct' = [direct EXCEPT
           !.pc = "done",
           !.released = (direct.fn = "_aquery"),
           !.result = IF /\ direct.fn = "_aquery"
                         /\ json.result.kind = "raise"
                         /\ IsValueError(json.result.value)
                      THEN Raise(ParseFailedError, {})
                      ELSE json.result]
    /\ UNCHANGED <<json, session, aio_session, created>>
    /\ QueryUnchanged

QueryNext ==
    \/ QueryStart \/ QueryGet \/ QueryStatus \/ QueryContentType \/ QueryDecode
    \/ LoadJsonReturn \/ LoadJsonGiveUp \/ LoadJsonRepair
    \/ QueryReturn

SpecQuery == QueryInit /\ [][QueryNext]_vars

(***************************************************************************)
(* SpecParse: _parse_gdelt_file called on its own, with an archive whose   *)
(* table has N columns and a schema of L names, N and L independent.       *)
(***************************************************************************)
\* the names a schema is made of
SchemaNames == [k \in 1..(MaxCols + 2) |-> "Col" \o ToString(k)]

\* archives: a readable one with a table of n columns, or an unreadable one
Archives ==
    { [body |-> b, ncols |-> n, rows |-> IF b = "rows" THEN FileRows(i) ELSE <<>>] :
        b \in { "rows", "corrupt" }, n \in 1..MaxCols, i \in 1..2 }

ParseCalls ==
    { [data |-> a, table |-> t, columns |-> SubSeq(SchemaNames, 1, l), result |-> Pending] :
        a \in Archives, t \in GdeltTables, l \in 0..(MaxCols + 2) }

ParseInit ==
    /\ parse \in ParseCalls
    /\ loop = NoLoop /\ json = NoJson /\ direct = NoDirect
    /\ date = [kind |-> "list", ds |-> <<>>]
    /\ coverage = FALSE
    /\ now \in { c \in Clocks : c.hour = 0 /\ c.minute = 0 /\ c.day = DayOf(Calendar[2]) }
    /\ date_strings = NotReturned
    /\ xpc = "idle"
    /\ table = "events" /\ translation = FALSE
    /\ max_workers = <<>> /\ env = <<>>
    /\ output = "df" /\ normalize_columns = FALSE
    /\ ClientIdle

\* lines 439-473
ParseFile ==
    /\ parse # NoParse /\ parse.result = Pending
    /\ parse' = [parse EXCEPT !.result = parse_gdelt_file(parse.data, parse.table, parse.columns)]
    /\ UNCHANGED <<xvars, loop, json, direct, cvars, svars>>

ParseNext == ParseFile

SpecParse == ParseInit /\ [][ParseNext]_vars

(***************************************************************************)
(* SpecRange: expand_dates called with a two-element list, well ordered or *)
(* not, date_range's while loop taken one iteration at a time.             *)
(* FairSpecRange adds that the call, which runs on its caller's thread     *)
(* with nothing to wait for, keeps taking steps while it has one to take.  *)
(***************************************************************************)
\* every two-element list of dates, start before, at or after end
Ranges == { [kind |-> "list", ds |-> l] : l \in [1..2 -> Dates] }

RangeInit ==
    /\ date \in Ranges
    /\ coverage \in BOOLEAN
    /\ now \in Clocks
    /\ date_strings = NotReturned
    /\ xpc = "call"
    /\ loop = NoLoop /\ json = NoJson /\ parse = NoParse /\ direct = NoDirect
    /\ table = "events" /\ translation = FALSE
    /\ max_workers = <<>> /\ env = <<>>
    /\ output = "df" /\ normalize_columns = FALSE
    /\ ClientIdle

\* (mutant) the loop runs on to the day after end_date
range_continues_OneMore(current, end_date) == current.day <= end_date + 1

\* line 135: while current.date() <= end_date
range_continues(current, end_date) == current.day <= end_date

\* lines 160-166 of expand_dates and 130-134 of date_range: up to the loop
RangeEnter ==
    /\ xpc = "call"
    /\ loop' = [current  |-> Midnight(parse_date(date.ds[1])),
                end_date |-> parse_date(date.ds[2]).day,
                dates    |-> <<>>,
                steps    |-> 0]
    /\ xpc' = "loop"
    /\ UNCHANGED <<date, coverage, now, date_strings, json, parse, direct, cvars, svars>>

\* lines 135-137: one iteration of the loop
RangeStep ==
    /\ xpc = "loop"
    /\ range_continues(loop.current, loop.end_date)
    /\ loop' = [loop EXCEPT !.dates = Append(@, loop.current),
                            !.current = [@ EXCEPT !.day = @ + 1],
                            !.steps = @ + 1]
    /\ UNCHANGED <<date, coverage, now, date_strings, xpc, json, parse, direct, cvars, svars>>

\* the loop ends, date_range returns (line 138) and expand_dates goes through
\* the days it was given (lines 169-188)
RangeReturn ==
    /\ xpc = "loop"
    /\ ~range_continues(loop.current, loop.end_date)
    /\ date_strings' = extend_all(loop.dates, coverage, now)
    /\ xpc' = "returned"
    /\ UNCHANGED <<date, coverage, now, hvars, cvars, svars>>

RangeNext == RangeEnter \/ RangeStep \/ RangeReturn

SpecRange == RangeInit /\ [][RangeNext]_vars

FairSpecRange == SpecRange /\ WF_vars(RangeNext)

(***************************************************************************)
(* Spec: one client, on which search() and then asearch() are called, each *)
(* once, with the same arguments against the same remote side.             *)
(*                                                                         *)
(* search(): the per-item fetches run on the threads of a                  *)
(* ThreadPoolExecutor (the single-identifier call runs on the caller's     *)
(* thread); a thread's steps are its read of self.session, its assignment  *)
(* of a new Session, and its GET with everything after it.                 *)
(* asearch(): the per-item fetches are coroutines on one event loop; a     *)
(* coroutine runs without interruption up to its next await.               *)
(***************************************************************************)
\* the clock of the calls: early on the day Calendar[MaxBatch]
SearchClock ==
    [day |-> DayOf(Calendar[MaxBatch]), hour |-> 0, minute |-> 29, second |-> 30]

Single(x) == [kind |-> "single", d |-> x]
List(l) == [kind |-> "list", ds |-> l]

\* the `date` arguments of the calls: past days, today, tomorrow; ranges of
\* one to MaxBatch days; a reversed range; lists of zero, one and three days
SearchDates ==
    { Single(Calendar[k]) : k \in 1..(MaxBatch + 1) }
        \cup { List(<<Calendar[1], Calendar[k]>>) : k \in 1..MaxBatch }
        \cup { List(<<>>), List(<<Calendar[1]>>), List(<<Calendar[2], Calendar[1]>>),
               List(<<Calendar[1], Calendar[2], Calendar[3]>>) }

\* (mutant) the output name is not converted before the fetch
rejected_OutputUnchecked(dspec, tbl, out, trans, clock) ==
    IF tbl \notin GdeltTables THEN InvalidNameError(tbl, "GdeltTable")
    ELSE IF validate_date(dspec, clock) # None THEN validate_date(dspec, clock)
    ELSE validate_table(tbl, trans)

\* what search() raises before it fetches anything (None: nothing)
rejected(dspec, tbl, out, trans, clock) ==
    IF tbl \notin GdeltTables THEN InvalidNameError(tbl, "GdeltTable")
    ELSE IF out \notin OutputFormats THEN InvalidNameError(out, "OutputFormat")
    ELSE IF validate_date(dspec, clock) # None THEN validate_date(dspec, clock)
    ELSE validate_table(tbl, trans)

\* the number of identifiers a call fetches
BatchSize(dspec, cov, tbl, out, trans, clock) ==
    IF rejected(dspec, tbl, out, trans, clock) # None THEN 0
    ELSE Len(expand_dates(dspec, cov, clock))

\* max_workers: None, or 1 .. MaxWorkers
WorkerSettings == { <<>> } \cup { <<k>> : k \in 1..MaxWorkers }

\* ThreadPoolExecutor(max_workers): None stands for min(32, cpu_count + 4) >= 5
PoolSize == IF max_workers = <<>> THEN 5 ELSE max_workers[1]

Init ==
    /\ date \in SearchDates
    /\ coverage \in BOOLEAN
    /\ now = SearchClock
    /\ table = "events" /\ translation = FALSE
    /\ output = "df" /\ normalize_columns = FALSE
    /\ BatchSize(date, coverage, table, output, translation, now) <= MaxBatch
    /\ max_workers \in WorkerSettings
    /\ env \in [1..BatchSize(date, coverage, table, output, translation, now) -> Outcomes]
    /\ date_strings = NotReturned
    /\ xpc = "idle"
    /\ HelpersIdle
    /\ ClientIdle

Set(f, s, i, v) == [f EXCEPT ![s][i] = v]

\* lines 263-271 / 309-317: validation, expansion, URLs; a rejected call ends here
CallStart(s) ==
    /\ running = "idle"
    /\ ret[s] = Pending
    /\ LET err == rejected(date, table, output, translation, now)
           ids == expand_dates(date, coverage, now)
       IN  IF err # None
           THEN /\ ret' = [ret EXCEPT ![s] = Raise(err, {})]
                /\ UNCHANGED <<date_strings, running, urls, task, calls, dfs, warned>>
           ELSE /\ date_strings' = ids
                /\ urls' = build_urls(ids, table, translation)
                /\ running' = s
                /\ task' = [i \in 1..Len(ids) |-> "queued"]
                /\ calls' = [calls EXCEPT ![s] = [i \in 1..Len(ids) |-> 0]]
                /\ dfs' = [dfs EXCEPT ![s] = [i \in 1..Len(ids) |-> Pending]]
                /\ warned' = [warned EXCEPT ![s] = [i \in 1..Len(ids) |-> {}]]
                /\ UNCHANGED ret
    /\ UNCHANGED <<date, coverage, now, xpc, hvars, cvars, cameo_codes, session, aio_session, created>>

SearchStart == CallStart("search")
AsearchStart == ret["search"] # Pending /\ CallStart("asearch")

\* the per-item fetches that have started and not ended
InFlight == { i \in DOMAIN task : task[i] \notin { "queued", "done" } }

\* leaving the `with` block (line 277) / the await of gather (line 323): every
\* per-item fetch has ended
all_done == \A i \in DOMAIN task : task[i] = "done"

\* (mutant) an item that ends without data cancels the items still queued,
\* which then end with None and are never fetched
Ended_CancelsQueued(s, i, r) ==
    LET cancelled(j) == j # i /\ task[j] = "queued" /\ r.value = None
    IN  /\ dfs' = [dfs EXCEPT ![s] =
                     [j \in DOMAIN @ |->
                        IF j = i THEN [kind |-> r.kind, value |-> r.value]
                        ELSE IF cancelled(j) THEN [kind |-> "return", value |-> None]
                        ELSE @[j]]]
        /\ warned' = Set(warned, s, i, r.warnings)
        /\ task' = [j \in DOMAIN task |->
                     IF j = i \/ cancelled(j) THEN "done" ELSE task[j]]

\* the i-th item ends with outcome r of the per-item function
Ended(s, i, r) ==
    /\ dfs' = Set(dfs, s, i, [kind |-> r.kind, value |-> r.value])
    /\ warned' = Set(warned, s, i, r.warnings)
    /\ task' = [task EXCEPT ![i] = "done"]

\* a pool thread takes the next queued item and enters _download_and_parse:
\* line 397, the read of self.session
WorkerStart(i) ==
    /\ running = "search"
    /\ task[i] = "queued"
    /\ \A j \in 1..(i - 1) : task[j] # "queued"
    /\ Cardinality(InFlight) < PoolSize
    /\ task' = [task EXCEPT ![i] = IF session = <<>> THEN "create" ELSE "get"]
    /\ calls' = Set(calls, "search", i, calls["search"][i] + 1)
    /\ UNCHANGED <<xvars, hvars, cvars, cameo_codes, session, aio_session, created, running, urls, dfs,
                   warned, ret>>

\* lines 398-399: self.session = Session()
WorkerCreateSession(i) ==
    /\ running = "search"
    /\ task[i] = "create"
    /\ created' = [created EXCEPT !.session = @ + 1]
    /\ session' = <<created.session + 1>>
    /\ task' = [task EXCEPT ![i] = "get"]
    /\ UNCHANGED <<xvars, hvars, cvars, cameo_codes, aio_session, running, urls, calls, dfs, warned, ret>>

\* lines 401-413: the GET, and what _download_and_parse makes of its outcome
WorkerFetch(i) ==
    /\ running = "search"
    /\ task[i] = "get"
    /\ Ended("search", i, download_and_parse(i, env[i], table, load_schema(table)))
    /\ UNCHANGED <<xvars, hvars, cvars, cameo_codes, session, aio_session, created, running, urls, calls, ret>>

\* lines 278-292
SearchReturn ==
    /\ running = "search"
    /\ all_done
    /\ ret' = [ret EXCEPT !["search"] =
                  search_tail(dfs["search"], table, output, normalize_columns)]
    /\ cameo_codes' = IF reads_cameo_codes(search_tail(dfs["search"], table, "df", FALSE))
                      THEN <<"cameo">> ELSE cameo_codes
    /\ running' = "idle"
    /\ task' = <<>>
    /\ UNCHANGED <<xvars, hvars, cvars, session, aio_session, created, urls, calls, dfs, warned>>

\* (mutant) every coroutine creates a ClientSession of its own
aio_session_is_None_Always(s) == TRUE

\* line 422: self.aio_session is None
aio_session_is_None(s) == s = <<>>

\* a coroutine's first run: lines 422-426, up to the await of the GET.  Tasks
\* are first run in the order gather() created them.
TaskStart(i) ==
    /\ running = "asearch"
    /\ task[i] = "queued"
    /\ \A j \in 1..(i - 1) : task[j] # "queued"
    /\ IF aio_session_is_None(aio_session)
       THEN /\ created' = [created EXCEPT !.aio_session = @ + 1]
            /\ aio_session' = <<created.aio_session + 1>>
       ELSE UNCHANGED <<created, aio_session>>
    /\ task' = [task EXCEPT ![i] = "await_get"]
    /\ calls' = Set(calls, "asearch", i, calls["asearch"][i] + 1)
    /\ UNCHANGED <<xvars, hvars, cvars, cameo_codes, session, running, urls, dfs, warned, ret>>

\* the GET of a coroutine completes (lines 426-432): with a readable answer
\* the coroutine goes on to await response.read(), otherwise it ends.  The
\* loop runs every coroutine's first step before it handles any completion.
TaskResponse(i) ==
    /\ running = "asearch"
    /\ task[i] = "await_get"
    /\ \A j \in DOMAIN task : task[j] # "queued"
    /\ IF env[i].kind = "response" /\ env[i].status # 404 /\ ~raise_for_status(env[i].status)
       THEN /\ task' = [task EXCEPT ![i] = "await_read"]
            /\ UNCHANGED <<dfs, warned>>
       ELSE Ended("asearch", i, adownload_and_parse(i, env[i], table, load_schema(table)))
    /\ UNCHANGED <<xvars, hvars, cvars, cameo_codes, session, aio_session, created, running, urls, calls, ret>>

\* lines 432-437: the body has been read and is parsed
TaskRead(i) ==
    /\ running = "asearch"
    /\ task[i] = "await_read"
    /\ Ended("asearch", i, adownload_and_parse(i, env[i], table, load_schema(table)))
    /\ UNCHANGED <<xvars, hvars, cvars, cameo_codes, session, aio_session, created, running, urls, calls, ret>>

\* lines 323-337
AsearchReturn ==
    /\ running = "asearch"
    /\ all_done
    /\ ret' = [ret EXCEPT !["asearch"] =
                  asearch_tail(dfs["asearch"], table, output, normalize_columns)]
    /\ cameo_codes' = IF reads_cameo_codes(asearch_tail(dfs["asearch"], table, "df", FALSE))
                      THEN <<"cameo">> ELSE cameo_codes
    /\ running' = "idle"
    /\ task' = <<>>
    /\ UNCHANGED <<xvars, hvars, cvars, session, aio_session, created, urls, calls, dfs, warned>>

Next ==
    \/ SearchStart
    \/ AsearchStart
    \/ \E i \in DOMAIN task : WorkerStart(i)
    \/ \E i \in DOMAIN task : WorkerCreateSession(i)
    \/ \E i \in DOMAIN task : WorkerFetch(i)
    \/ SearchReturn
    \/ \E i \in DOMAIN task : TaskStart(i)
    \/ \E i \in DOMAIN task : TaskResponse(i)
    \/ \E i \in DOMAIN task : TaskRead(i)
    \/ AsearchReturn

Spec == Init /\ [][Next]_vars

(***************************************************************************)
(* SpecCall: the same calls with every argument drawn: table and output    *)
(* names the enums have and names they lack, both translation and          *)
(* normalize_columns settings; one past day, a range of two past days, and *)
(* a day in the future.                                                    *)
(***************************************************************************)
CallDates ==
    { Single(Calendar[1]), List(<<Calendar[1], Calendar[2]>>), Single(Calendar[MaxBatch + 1]),
      List(<<Calendar[2], Calendar[1]>>) }

CallInit ==
    /\ date \in CallDates
    /\ coverage = FALSE
    /\ now = SearchClock
    /\ table \in GdeltTables \cup { "invalid" }
    /\ translation \in BOOLEAN
    /\ output \in OutputFormats \cup { "xml" }
    /\ normalize_columns \in BOOLEAN
    /\ max_workers = <<>>
    /\ env \in [1..BatchSize(date, coverage, table, output, translation, now) -> Outcomes]
    /\ date_strings = NotReturned
    /\ xpc = "idle"
    /\ HelpersIdle
    \* GdeltClient() or GdeltClient(session=..., aio_session=...): <<0>> is a
    \* session the caller supplied
    /\ \E given \in BOOLEAN :
          /\ session = IF given THEN <<0>> ELSE <<>>
          /\ aio_session = IF given THEN <<0>> ELSE <<>>
    /\ created = [session |-> 0, aio_session |-> 0]
    /\ cameo_codes = <<>>
    /\ running = "idle"
    /\ urls = <<>> /\ task = <<>>
    /\ calls = [s \in Strategies |-> <<>>]
    /\ dfs = [s \in Strategies |-> <<>>]
    /\ warned = [s \in Strategies |-> <<>>]
    /\ ret = [s \in Strategies |-> Pending]

SpecCall == CallInit /\ [][Next]_vars

(***************************************************************************)
(* Properties of expand_dates (checked under SpecExpand).                  *)
(***************************************************************************)
\* the calendar date an argument names, read off the argument itself
CalendarOf(x) ==
    IF IsStr(x) THEN x
    ELSE CHOOSE c \in { Calendar[i] : i \in DOMAIN Calendar } : DayOf(c) = x.day

\* "YYYYMMDD" of a calendar date, digit by digit
YmdOf(c) == Pad(c.y, 4) \o Pad(c.m, 2) \o Pad(c.d, 2)

\* the number a digit string spells
RECURSIVE DigitsValue(_)
DigitsValue(s) ==
    IF s = <<>> THEN 0 ELSE DigitsValue(SubSeq(s, 1, Len(s) - 1)) * 10 + s[Len(s)]

\* seconds from the midnight that starts the clock's day to the instant an
\* identifier names
SecondsFromToday(id, clock) ==
    (DaysFromCivil(DigitsValue(SubSeq(id, 1, 4)), DigitsValue(SubSeq(id, 5, 6)),
                   DigitsValue(SubSeq(id, 7, 8))) - clock.day) * 86400
        + DigitsValue(SubSeq(id, 9, 10)) * 3600
        + DigitsValue(SubSeq(id, 11, 12)) * 60
        + DigitsValue(SubSeq(id, 13, 14))

ClockSeconds(clock) == clock.hour * 3600 + clock.minute * 60 + clock.second

SingleDayReturned == xpc = "returned" /\ date.kind = "single"

IsToday(x, clock) == DayOf(CalendarOf(x)) = clock.day

\* the k-th interval label of a day, k = 1..96, from its start minute
IntervalLabel(k) ==
    Pad(((k - 1) * 15) \div 60, 2) \o Pad(((k - 1) * 15) % 60, 2) \o <<0, 0>>

\* C7: a single day that is not the current calendar day, with coverage=false,
\* expands to exactly one identifier: the day's YYYYMMDD followed by 234500.
C7_PastDayLatest ==
    (SingleDayReturned /\ ~coverage /\ ~IsToday(date.d, now))
        => date_strings = << YmdOf(CalendarOf(date.d)) \o <<2, 3, 4, 5, 0, 0>> >>

C7_Witness ==
    /\ SingleDayReturned /\ ~coverage /\ ~IsToday(date.d, now)
    /\ Len(date_strings) = 1

\* C8: the current calendar day with coverage=false expands to exactly one
\* identifier, naming the 15-minute boundary that lies in
\* (now - 30 min, now - 15 min]: the clock floored to its interval, minus one
\* full interval.
C8_TodayLatest ==
    (SingleDayReturned /\ ~coverage /\ IsToday(date.d, now))
        => /\ Len(date_strings) = 1
           /\ LET t == SecondsFromToday(date_strings[1], now)
              IN  /\ t % 900 = 0
                  /\ ClockSeconds(now) - 1800 < t
                  /\ t <= ClockSeconds(now) - 900

C8_Witness ==
    /\ SingleDayReturned /\ ~coverage /\ IsToday(date.d, now)
    /\ now.minute % 15 # 0
    /\ Len(date_strings) = 1

\* C9: the current calendar day with coverage=true expands to the intervals
\* 000000 .. the interval containing now, in order and none after it:
\* 4*hour + (minute div 15) + 1 identifiers.
C9_TodayCoverage ==
    (SingleDayReturned /\ coverage /\ IsToday(date.d, now))
        => /\ Len(date_strings) = 4 * now.hour + (now.minute \div 15) + 1
           /\ \A k \in 1..Len(date_strings) :
                 date_strings[k] = YmdOf(CalendarOf(date.d)) \o IntervalLabel(k)
           /\ LET t == SecondsFromToday(date_strings[Len(date_strings)], now)
              IN  t <= ClockSeconds(now) /\ ClockSeconds(now) < t + 900

C9_Witness ==
    /\ SingleDayReturned /\ coverage /\ IsToday(date.d, now)
    /\ Len(date_strings) > 1 /\ Len(date_strings) < 96

\* C10 as claimed: every day with coverage=true expands to exactly 96
\* identifiers, the first ending 000000 and the last ending 234500.
C10_Original ==
    (SingleDayReturned /\ coverage)
        => /\ Len(date_strings) = 96
           /\ SubSeq(date_strings[1], 9, 14) = <<0, 0, 0, 0, 0, 0>>
           /\ SubSeq(date_strings[96], 9, 14) = <<2, 3, 4, 5, 0, 0>>

\* C10 (amended): every day other than the current calendar day, with
\* coverage=true, expands to exactly 96 identifiers of that day, the first
\* ending 000000 and the last ending 234500.
C10_PastDayCoverage ==
    (SingleDayReturned /\ coverage /\ ~IsToday(date.d, now))
        => /\ Len(date_strings) = 96
           /\ date_strings[1] = YmdOf(CalendarOf(date.d)) \o <<0, 0, 0, 0, 0, 0>>
           /\ date_strings[96] = YmdOf(CalendarOf(date.d)) \o <<2, 3, 4, 5, 0, 0>>
           /\ \A k \in 1..96 :
                 date_strings[k] = YmdOf(CalendarOf(date.d)) \o IntervalLabel(k)

C10_Witness ==
    /\ SingleDayReturned /\ coverage /\ ~IsToday(date.d, now)
    /\ Len(date_strings) = 96

\* the argument is a two-element list [start, end], and the call has returned
RangeReturned == xpc = "returned" /\ date.kind = "list" /\ Len(date.ds) = 2

StartDay == DayOf(CalendarOf(date.ds[1]))
EndDay == DayOf(CalendarOf(date.ds[2]))

\* the calendar date with a given day number, looked up in the calendar
CalendarAt(n) == CHOOSE c \in { Calendar[i] : i \in DOMAIN Calendar } : DayOf(c) = n

\* C11: a two-element list [start, end], start not after end, expands to the
\* N = end - start + 1 calendar days from start to end, each once and in
\* order: N identifiers with coverage=false (YYYYMMDD234500 for each day that
\* is not the current one), and with coverage=true over days none of which is
\* the current one 96 * N identifiers, the 96 intervals of each day.
C11_RangeInclusive ==
    (RangeReturned /\ StartDay <= EndDay)
        => LET Nd == EndDay - StartDay + 1
           IN  /\ ~coverage
                    => /\ Len(date_strings) = Nd
                       /\ \A k \in 1..Nd :
                             StartDay + k - 1 # now.day
                                => date_strings[k] =
                                     YmdOf(CalendarAt(StartDay + k - 1)) \o <<2, 3, 4, 5, 0, 0>>
               /\ (coverage /\ ~(StartDay <= now.day /\ now.day <= EndDay))
                    => /\ Len(date_strings) = 96 * Nd
                       /\ \A k \in 1..Nd : \A j \in 1..96 :
                             date_strings[96 * (k - 1) + j] =
                                 YmdOf(CalendarAt(StartDay + k - 1)) \o IntervalLabel(j)

C11_Witness ==
    /\ RangeReturned /\ coverage
    /\ EndDay = StartDay + 1 /\ now.day > EndDay
    /\ Len(date_strings) = 192

\* C12 as claimed: whatever the date specification, the coverage flag and the
\* clock, no identifier occurs twice in what expand_dates returns.
C12_NoDuplicates ==
    xpc = "returned"
        => \A i, j \in 1..Len(date_strings) :
              i # j => date_strings[i] # date_strings[j]

\* a valid range (start before end, neither in the future) whose expansion
\* names one file twice: yesterday's last interval, once for yesterday and once
\* as the current day's latest interval just after midnight
C12_Witness ==
    /\ RangeReturned /\ ~coverage
    /\ EndDay = StartDay + 1 /\ now.day = EndDay
    /\ Len(date_strings) = 2
    /\ date_strings[1] = date_strings[2]

\* the days a date specification names, in the order it names them, read
\* off the argument: the day of a single date, the days start .. end of a
\* two-element list, the day of each element of any other list
NamedDays ==
    IF date.kind = "single" THEN << DayOf(CalendarOf(date.d)) >>
    ELSE IF Len(date.ds) = 2
         THEN [k \in 1..(IF EndDay >= StartDay THEN EndDay - StartDay + 1 ELSE 0) |->
                  StartDay + k - 1]
         ELSE [i \in 1..Len(date.ds) |-> DayOf(CalendarOf(date.ds[i]))]

\* how many identifiers a day gives
BlockLen(day) ==
    IF ~coverage THEN 1
    ELSE IF day = now.day THEN 4 * now.hour + (now.minute \div 15) + 1
    ELSE 96

\* where the block of the k-th named day starts in the result (0-based)
RECURSIVE BlockStart(_)
BlockStart(k) == IF k <= 1 THEN 0 ELSE BlockStart(k - 1) + BlockLen(NamedDays[k - 1])

\* the time of day HHMMSS an identifier names, as a number
TimeValue(id) ==
    id[9] * 100000 + id[10] * 10000 + id[11] * 1000 + id[12] * 100 + id[13] * 10 + id[14]

\* C13: emission order.  The result is one block of identifiers per named
\* day, the blocks in the order of the normalised day list (ascending days for
\* a range); with coverage the identifiers of a block carry their day and
\* strictly ascending interval times, starting at 000000.
C13_EmissionOrder ==
    xpc = "returned"
        => /\ Len(date_strings) = BlockStart(Len(NamedDays) + 1)
           /\ \A k \in 1..Len(NamedDays) :
                 LET day == NamedDays[k]
                     ymd == YmdOf(CalendarAt(day))
                     first == BlockStart(k)
                     len == BlockLen(day)
                 IN  IF coverage
                     THEN /\ \A j \in 1..len :
                                SubSeq(date_strings[first + j], 1, 8) = ymd
                          /\ TimeValue(date_strings[first + 1]) = 0
                          /\ \A j \in 1..(len - 1) :
                                TimeValue(date_strings[first + j])
                                    < TimeValue(date_strings[first + j + 1])
                     ELSE IF day = now.day
                          THEN LET t == SecondsFromToday(date_strings[first + 1], now)
                               IN  ClockSeconds(now) - 1800 < t /\ t <= ClockSeconds(now) - 900
                          ELSE date_strings[first + 1] = ymd \o <<2, 3, 4, 5, 0, 0>>
           /\ (date.kind = "list" /\ Len(date.ds) = 2)
                 => \A k \in 1..(Len(NamedDays) - 1) : NamedDays[k] < NamedDays[k + 1]

\* three days named out of calendar order, the current day among them
C13_Witness ==
    /\ xpc = "returned" /\ coverage
    /\ date.kind = "list" /\ Len(date.ds) = 3
    /\ NamedDays[1] > NamedDays[2] /\ NamedDays[3] # NamedDays[1] /\ NamedDays[3] # NamedDays[2]
    /\ \E k \in 1..3 : NamedDays[k] = now.day
    /\ Len(date_strings) > 192
    /\ SubSeq(date_strings[1], 1, 8) = YmdOf(CalendarAt(NamedDays[1]))

\* C26: every identifier emitted for a requested day D begins with D's own
\* YYYYMMDD, whatever the clock and the coverage flag, the current calendar
\* day with coverage=false included.
C26_OwnDayPrefix ==
    xpc = "returned"
        => /\ Len(date_strings) = BlockStart(Len(NamedDays) + 1)
           /\ \A k \in 1..Len(NamedDays) :
                 \A j \in 1..BlockLen(NamedDays[k]) :
                    SubSeq(date_strings[BlockStart(k) + j], 1, 8)
                        = YmdOf(CalendarAt(NamedDays[k]))

\* the current day asked for in the first quarter of an hour after midnight,
\* coverage=false: the one identifier returned is the previous day's 234500
C26_Witness ==
    /\ SingleDayReturned /\ ~coverage /\ IsToday(date.d, now)
    /\ now.hour = 0 /\ now.minute < 15
    /\ date_strings = << YmdOf(CalendarAt(now.day - 1)) \o <<2, 3, 4, 5, 0, 0>> >>
    /\ SubSeq(date_strings[1], 1, 8) # YmdOf(CalendarOf(date.d))

\* the days from start to end of the range, both counted: none when the end
\* precedes the start
DaysBetween == IF EndDay >= StartDay THEN EndDay - StartDay + 1 ELSE 0

\* C14: expand_dates terminates for every two-element list, the end before
\* the start included: the loop of date_range never takes more steps than
\* there are days from start to end, takes none when the end precedes the
\* start (the day list is then empty, and so is the result), and the call
\* returns.
C14_RangeTerminates ==
    /\ [](loop # NoLoop
            => /\ loop.steps <= DaysBetween
               /\ Len(loop.dates) = loop.steps
               /\ (xpc = "returned"
                     => /\ loop.steps = DaysBetween
                        /\ loop.dates = date_range(date.ds[1], date.ds[2])
                        /\ (EndDay < StartDay
                              => loop.steps = 0 /\ loop.dates = <<>> /\ date_strings = <<>>)))
    /\ <>(xpc = "returned")

\* a malformed range has returned, its loop not entered once
C14_Witness ==
    /\ xpc = "returned" /\ loop # NoLoop
    /\ EndDay < StartDay
    /\ loop.steps = 0 /\ date_strings = <<>>

\* the single-day expansions of the elements i .. of the list, one after the
\* other
RECURSIVE SinglesFrom(_)
SinglesFrom(i) ==
    IF i > Len(date.ds) THEN <<>>
    ELSE expand_dates([kind |-> "single", d |-> date.ds[i]], coverage, now)
            \o SinglesFrom(i + 1)

\* C15: a list whose length is not 2 is a set of independent days: the result
\* is, in list order, each element's own single-day expansion and nothing
\* else; with coverage every identifier carries the day of an element, no day
\* in between; the empty list gives no identifier.
C15_IndependentDays ==
    (xpc = "returned" /\ date.kind = "list" /\ Len(date.ds) # 2)
        => /\ date_strings = SinglesFrom(1)
           /\ Len(date_strings) = BlockStart(Len(date.ds) + 1)
           /\ coverage
                => \A p \in 1..Len(date_strings) :
                      \E i \in 1..Len(date.ds) :
                          SubSeq(date_strings[p], 1, 8) = YmdOf(CalendarOf(date.ds[i]))
           /\ date.ds = <<>> => date_strings = <<>>

\* three elements, the first two a day apart from each other's neighbour: the
\* day between them is in no identifier
C15_Witness ==
    /\ xpc = "returned" /\ coverage
    /\ date.kind = "list" /\ Len(date.ds) = 3
    /\ NamedDays[2] = NamedDays[1] + 2 /\ NamedDays[3] = NamedDays[1]
    /\ Len(date_strings) >= 3
    /\ \A p \in 1..Len(date_strings) :
          SubSeq(date_strings[p], 1, 8) # YmdOf(CalendarAt(NamedDays[1] + 1))

(***************************************************************************)
(* Properties of _build_urls (checked under SpecUrls).                     *)
(***************************************************************************)
\* the suffix of a table kind's files
TableSuffix ==
    [events |-> ".export.CSV.zip", mentions |-> ".mentions.CSV.zip", gkg |-> ".gkg.csv.zip"]

\* C21: remote file naming.  _build_urls gives one URL per identifier, in the
\* identifiers' order: the base URL, the 14-digit timestamp and the suffix of
\* the table kind, which is that suffix with .translation put before it
\* exactly when translation is true.
C21_FileNaming ==
    xpc = "returned"
        => /\ Len(urls) = Len(date_strings)
           /\ \A i \in 1..Len(urls) :
                 /\ urls[i].base = "http://data.gdeltproject.org/gdeltv2/"
                 /\ urls[i].ts = date_strings[i]
                 /\ Len(urls[i].ts) = 14
                 /\ urls[i].suffix =
                       (IF translation THEN ".translation" ELSE "") \o TableSuffix[table]

\* three identifiers of a translated gkg request
C21_Witness ==
    /\ xpc = "returned"
    /\ table = "gkg" /\ translation
    /\ Len(urls) = 3
    /\ urls[1].ts # urls[2].ts
    /\ urls[3].suffix = ".translation.gkg.csv.zip"

(***************************************************************************)
(* Properties of validate_date (checked under SpecValidate).               *)
(***************************************************************************)
\* the instant a date argument names, in seconds since 1970: midnight for a
\* string
Instant(x) ==
    IF IsStr(x) THEN DaysFromCivil(x.y, x.m, x.d) * 86400
    ELSE x.day * 86400 + x.hour * 3600 + x.minute * 60 + x.second

\* the dates of the argument
Supplied == IF date.kind = "single" THEN {date.d} ELSE { date.ds[i] : i \in DOMAIN date.ds }

Validated == direct # NoDirect /\ direct.fn = "validate_date" /\ direct.result # Pending

\* C22: validate_date raises ValueError if a supplied date is later than now
\* or earlier than 2015-02-18 00:00:00, and, for a two-element list, unless
\* element 0 is strictly before element 1; in every other case it returns
\* None.
C22_ValidateDate ==
    Validated
        => LET late == \E x \in Supplied : Instant(x) > Instant(now)
               early == \E x \in Supplied : Instant(x) < DaysFromCivil(2015, 2, 18) * 86400
               unordered == /\ date.kind = "list" /\ Len(date.ds) = 2
                            /\ Instant(date.ds[1]) >= Instant(date.ds[2])
           IN  IF late \/ early \/ unordered
               THEN /\ direct.result.kind = "raise"
                    /\ direct.result.value.type = "ValueError"
                    /\ (~late /\ ~early) => direct.result.value = RangeOrderError
                    /\ (late /\ ~early) => direct.result.value = FutureDateError
                    /\ (early /\ ~late) => direct.result.value = BeforeStartError
               ELSE direct.result = Return(None, {})

\* a two-element list naming one valid instant twice is rejected
C22_Witness ==
    /\ Validated
    /\ date.kind = "list" /\ Len(date.ds) = 2
    /\ Instant(date.ds[1]) = Instant(date.ds[2])
    /\ Instant(date.ds[1]) <= Instant(now)
    /\ Instant(date.ds[1]) >= DaysFromCivil(2015, 2, 18) * 86400
    /\ direct.result = Raise(RangeOrderError, {})

(***************************************************************************)
(* Properties of raise_response_error (checked under SpecErrors).          *)
(***************************************************************************)
Classified == direct # NoDirect /\ direct.fn = "raise_response_error" /\ direct.result # Pending

\* the class of the exception raised, "none" when the call returned
RaisedClass == IF direct.result.kind = "raise" THEN direct.result.value.type ELSE "none"

\* C23: raise_response_error classifies every status code, one outcome each:
\* 200 returns without raising; 400 raises BadRequestError, 404
\* NotFoundError, 429 RateLimitError, any other 4xx ClientRequestError, any
\* 5xx ServerError, and every remaining status the base GdeltAPIError.
C23_TotalClassification ==
    Classified =>
        LET s == direct.status
        IN  /\ (s = 200) <=> (direct.result = Return(None, {}))
            /\ (s = 400) <=> (RaisedClass = "BadRequestError")
            /\ (s = 404) <=> (RaisedClass = "NotFoundError")
            /\ (s = 429) <=> (RaisedClass = "RateLimitError")
            /\ (s \in (400..499) \ {400, 404, 429}) <=> (RaisedClass = "ClientRequestError")
            /\ (s \in 500..599) <=> (RaisedClass = "ServerError")
            /\ (s \notin {200} \cup (400..599)) <=> (RaisedClass = "GdeltAPIError")
            /\ RaisedClass \in { "none", "BadRequestError", "NotFoundError", "RateLimitError",
                                 "ClientRequestError", "ServerError", "GdeltAPIError" }

C23_Witness ==
    /\ Classified
    /\ direct.status = 429
    /\ direct.result = Raise(Exc("RateLimitError", "HTTP 429"), {})

(***************************************************************************)
(* Properties of _query and _aquery (checked under SpecQuery).             *)
(***************************************************************************)
Queried == direct # NoDirect /\ direct.fn \in { "_query", "_aquery" }

Answered == Queried /\ direct.response # None

\* the content types of the model that contain text/html
HtmlTypes == { <<"text/html">>, <<"text/html", "; charset=UTF-8">> }

C29_ResponseReleased ==
    (Answered /\ direct.fn = "_aquery" /\ direct.pc = "done") => direct.released

\* a 404 answer: raise_response_error raises on line 207, before the try
\* statement whose finally clause holds the only response.release()
C29_Witness ==
    /\ Answered
    /\ direct.fn = "_aquery"
    /\ direct.response.status = 404
    /\ direct.pc = "done"
    /\ direct.result = Raise(Exc("NotFoundError", "HTTP 404"), {})
    /\ direct.steps = <<"status">>
    /\ ~direct.released

(***************************************************************************)
(* Properties of _parse_gdelt_file (checked under SpecParse).              *)
(***************************************************************************)
\* the call has returned or raised, on an archive that could be read
ParsedReadable ==
    parse # NoParse /\ parse.result # Pending /\ parse.data.body = "rows"

\* C18: schema reconciliation.  For a raw table of N columns and a schema of
\* L names, the table is returned with its rows and nothing is raised; with
\* L = N its columns carry the L names in schema order; with L = N + 1 the
\* first N names, the last dropped; with any other L the columns keep the
\* labels 0 .. N-1 they were read with and a 'Column count mismatch' warning
\* is issued.  There is no warning in the first two cases.
C18_Reconciliation ==
    ParsedReadable
        => LET Nc == parse.data.ncols
               L == Len(parse.columns)
               r == parse.result
           IN  /\ r.kind = "return"
               /\ IsDataFrame(r.value)
               /\ r.value.rows = parse.data.rows
               /\ Len(r.value.columns) = Nc
               /\ L = Nc
                    => r.value.columns = parse.columns /\ r.warnings = {}
               /\ L = Nc + 1
                    => /\ r.value.columns = [k \in 1..Nc |-> parse.columns[k]]
                       /\ r.warnings = {}
               /\ L \notin { Nc, Nc + 1 }
                    => /\ \A k \in 1..Nc : r.value.columns[k] = ToString(k - 1)
                       /\ "Column count mismatch" \in r.warnings

\* a schema two names longer than the table: returned unlabeled, with its rows
C18_Witness ==
    /\ ParsedReadable
    /\ Len(parse.columns) = parse.data.ncols + 2
    /\ parse.result.kind = "return"
    /\ parse.result.value.rows # <<>>
    /\ "Column count mismatch" \in parse.result.warnings

(***************************************************************************)
(* Properties of load_json (checked under SpecJson / FairSpecJson).        *)
(***************************************************************************)
JsonEnded == json # NoJson /\ json.result # Pending

\* the payload is a string literal that is well formed but for the control
\* characters in it: quote, characters other than quote and backslash, quote
IllegalCharsOnly(t) ==
    /\ Len(t) >= 2 /\ t[1] = Quote /\ t[Len(t)] = Quote
    /\ \A i \in 2..(Len(t) - 1) : t[i] \notin { Quote, Backslash }

\* the positions of its illegal characters, ascending
IllegalPositions(t) ==
    LET at == { i \in 1..Len(t) : t[i] = Ctrl }
        RECURSIVE asc(_)
        asc(S) == IF S = {} THEN <<>>
                  ELSE LET m == CHOOSE x \in S : \A y \in S : x <= y
                       IN  <<m - 1>> \o asc(S \ {m})
    IN  asc(at)

\* the string it spells once each illegal character is a blank
Blanked(t) ==
    [i \in 1..(Len(t) - 2) |-> IF t[i + 1] = Ctrl THEN " " ELSE t[i + 1]]

\* how many repairs it takes until a text decodes, max + 1 if more than max
RECURSIVE RepairsNeeded(_, _)
RepairsNeeded(t, max) ==
    IF json_loads(t).ok THEN 0
    ELSE IF max = 0 THEN 1
    ELSE 1 + RepairsNeeded(fixed_message(t, json_loads(t).pos), max - 1)

\* C16: decoder cap.  A payload with k illegal characters in an otherwise well
\* formed string is decoded after exactly k repairs, one at each illegal
\* character, when k <= max_depth, and to the string with blanks in their
\* place; with k > max_depth (k = max_depth + 1 among them) the terminal
\* max-depth error is raised.  The same holds of any payload that k repairs
\* make decodable.
C16_DecoderCap ==
    (JsonEnded /\ json.payload.utf8)
        => LET t == json.payload.text
               max == json.max_recursion_depth
           IN  /\ IllegalCharsOnly(t)
                    => LET k == Len(IllegalPositions(t))
                       IN  IF k <= max
                           THEN /\ json.result = Return(Blanked(t), {})
                                /\ json.repairs = k /\ json.tries = k + 1
                                /\ json.positions = IllegalPositions(t)
                           ELSE /\ json.result = Raise(MaxDepthError, {})
                                /\ json.repairs = max
               /\ LET k == RepairsNeeded(t, max)
                  IN  IF k <= max
                      THEN json.result.kind = "return" /\ json.repairs = k
                      ELSE json.result = Raise(MaxDepthError, {})

\* as many illegal characters as repairs allowed, two of each: decoded
C16_Witness ==
    /\ JsonEnded
    /\ json.payload.text = <<Quote, Ctrl, Ctrl, Quote>>
    /\ json.max_recursion_depth = 2
    /\ json.repairs = 2
    /\ json.result = Return(<<" ", " ">>, {})

\* C17 as claimed: every retry reports a position greater than the one
\* before, and there are at most max_depth repairs and max_depth + 1 decode
\* attempts.
C17_Original ==
    json # NoJson
        => /\ \A k \in 1..(Len(json.positions) - 1) :
                 json.positions[k] < json.positions[k + 1]
           /\ json.repairs <= json.max_recursion_depth
           /\ json.tries <= json.max_recursion_depth + 1

\* C17 (amended): load_json makes at most max_depth repairs and max_depth + 1
\* decode attempts, one repair per level of its depth counter, and then
\* returns or raises.  A retry may report a position to the left of the one
\* before (the backslash of an invalid \u escape whose u was replaced, the
\* opening quote of a string left unterminated), but no position is reported
\* twice.
C17_DecoderBounded ==
    /\ [](json # NoJson
            => /\ json.repairs <= json.max_recursion_depth
               /\ json.tries <= json.max_recursion_depth + 1
               /\ json.repairs = json.recursion_depth
               /\ Len(json.positions) = json.repairs
               /\ \A k, l \in 1..Len(json.positions) :
                     k # l => json.positions[k] # json.positions[l])
    /\ <>JsonEnded

\* the depth is used up on a payload whose second repair is to the left of
\* its first
C17_Witness ==
    /\ JsonEnded
    /\ json.max_recursion_depth >= 2
    /\ json.repairs = json.max_recursion_depth
    /\ json.tries = json.max_recursion_depth + 1
    /\ json.positions[2] < json.positions[1]
    /\ json.result = Raise(MaxDepthError, {})

\* C28: load_json ends in one of two ways for every payload: it returns the
\* decoded value or it raises the terminal error "Max recursion depth
\* reached"; no other error leaves it, the payload being bytes that are not
\* text included.
C28_TwoOutcomes ==
    JsonEnded =>
        \/ json.result.kind = "return"
        \/ json.result = Raise(MaxDepthError, {})

\* load_json(b"\xff", m) with m > 0: the except clause decodes the bytes
\* again on line 48 and the UnicodeDecodeError leaves load_json at depth 0
C28_Witness ==
    /\ JsonEnded
    /\ ~json.payload.utf8
    /\ json.max_recursion_depth > 0
    /\ json.recursion_depth = 0
    /\ json.tries = 1
    /\ json.result = Raise(UnicodeDecodeError, {})

(***************************************************************************)
(* Properties of search() and asearch() (checked under Spec).              *)
(***************************************************************************)
Done(s) == ret[s] # Pending

\* the call passed validation and fetched its identifiers
Fetched(s) == Done(s) /\ rejected(date, table, output, translation, now) = None

\* the number of identifiers of the call
N(s) == Len(dfs[s])

\* what the remote side holds for the i-th identifier
Populated(i) == env[i] = Response(200, "rows")
Absent(i) == env[i] = Response(404, "none")
Failing(i) == env[i] \in { Failure("Timeout"), Response(500, "none"), Response(200, "corrupt") }

\* a per-item result that carries no data: None, or a frame without rows
NoData(r) == r.kind = "return" /\ (r.value = None \/ r.value.rows = <<>>)

\* the rows the remote side holds for identifiers i .. n, in identifier order
RECURSIVE RemoteRows(_, _)
RemoteRows(i, n) ==
    IF i > n THEN <<>>
    ELSE (IF Populated(i) THEN FileRows(i) ELSE <<>>) \o RemoteRows(i + 1, n)

RECURSIVE RemoteRowCount(_, _)
RemoteRowCount(i, n) ==
    IF i > n THEN 0
    ELSE (IF Populated(i) THEN Len(FileRows(i)) ELSE 0) + RemoteRowCount(i + 1, n)

\* C1: per-item isolation.  In a call over two or more identifiers the
\* per-item fetch runs at most once per identifier at any time, and when the
\* call ends it has run exactly once, to its end, for every identifier,
\* whatever the other identifiers met.
C1_EveryItemFetchedOnce ==
    \A s \in Strategies :
        /\ \A i \in DOMAIN calls[s] : calls[s][i] <= 1
        /\ (Fetched(s) /\ N(s) >= 2)
              => \A i \in 1..N(s) : calls[s][i] = 1 /\ dfs[s][i] # Pending

C1_Witness ==
    /\ Fetched("search") /\ Fetched("asearch")
    /\ N("search") >= 2
    /\ Failing(1) /\ Populated(2)
    /\ \A s \in Strategies : calls[s][2] = 1 /\ dfs[s][2].value.rows = FileRows(2)

\* C2: per-item classification.  The per-item fetch never raises; a 404
\* gives None; any other failure (timeout, other error status, unreadable
\* archive) gives None and warns; only a successful fetch gives a table,
\* labelled from the schema.
C2_ItemClassification ==
    \A s \in Strategies : \A i \in DOMAIN dfs[s] :
        dfs[s][i] # Pending =>
            /\ dfs[s][i].kind = "return"
            /\ Absent(i) => dfs[s][i].value = None
            /\ Failing(i) => /\ dfs[s][i].value = None
                             /\ "Failed to download" \in warned[s][i]
            /\ dfs[s][i].value # None
                 => /\ env[i] \in { Response(200, "rows"), Response(200, "empty") }
                    /\ dfs[s][i].value.columns = load_schema(table)
                    /\ dfs[s][i].value.rows = (IF Populated(i) THEN FileRows(i) ELSE <<>>)
            /\ env[i] \in { Response(200, "rows"), Response(200, "empty") }
                 => IsDataFrame(dfs[s][i].value)

C2_Witness ==
    /\ Fetched("search") /\ Fetched("asearch")
    /\ N("search") = 3
    /\ Absent(1) /\ env[2] = Failure("Timeout") /\ Populated(3)
    /\ \A s \in Strategies :
          /\ dfs[s][1].value = None /\ dfs[s][2].value = None
          /\ "Failed to download" \in warned[s][2]
          /\ IsDataFrame(dfs[s][3].value)

\* C3: total failure is fatal.  A call whose identifier list is empty, or
\* whose every per-item result is None or an empty table, raises the
\* 'No data returned' error and returns no table, with one identifier as with
\* several.
C3_TotalFailureRaises ==
    \A s \in Strategies :
        (Fetched(s) /\ \A i \in 1..N(s) : NoData(dfs[s][i]))
            => ret[s] = Raise(NoDataError, {})

C3_Witness ==
    /\ Fetched("search") /\ Fetched("asearch")
    /\ N("search") >= 2
    /\ Absent(1) /\ env[2] = Response(200, "empty")
    /\ \A i \in 1..N("search") : ~Populated(i)
    /\ \A s \in Strategies : ret[s].kind = "raise"

\* C4: merge content.  Over two or more identifiers of which one at least is
\* populated, the call returns the concatenation, in identifier order, of the
\* rows of the populated identifiers, each file's rows in their order: as
\* many rows as those files hold together, none from any other identifier.
C4_MergeContent ==
    \A s \in Strategies :
        (Fetched(s) /\ N(s) >= 2 /\ \E i \in 1..N(s) : Populated(i))
            => /\ ret[s].kind = "return"
               /\ ret[s].value.rows = RemoteRows(1, N(s))
               /\ Len(ret[s].value.rows) = RemoteRowCount(1, N(s))

C4_Witness ==
    /\ Fetched("search") /\ Fetched("asearch")
    /\ N("search") = 3
    /\ Populated(1) /\ Absent(2) /\ Populated(3)
    /\ \A s \in Strategies :
          ret[s].value.rows = FileRows(1) \o FileRows(3)

OtherErrors ==
    { FutureDateError, BeforeStartError, RangeOrderError, InvalidTableError, MaxDepthError }

TotalFailure(s) == Fetched(s) /\ \A i \in 1..N(s) : NoData(dfs[s][i])

\* C6 as claimed: the error raised for total failure is of a kind of its own:
\* its kind differs from that of every error raised for a rejected date or
\* table and from that of the decoder's terminal error.
C6_Original ==
    \A s \in Strategies :
        TotalFailure(s) => \A e \in OtherErrors : ret[s].value.type # e.type

\* C6 (amended): the error raised for total failure is a ValueError, the kind
\* of the validation errors and of the decoder's terminal error; it differs
\* from each of them by its message, 'No data returned for the specified
\* date(s).', and a rejected call raises its validation error, none other.
C6_DistinctByMessage ==
    \A s \in Strategies :
        /\ TotalFailure(s)
              => /\ ret[s].kind = "raise"
                 /\ ret[s].value.type = "ValueError"
                 /\ ret[s].value.msg = "No data returned for the specified date(s)."
                 /\ \A e \in OtherErrors :
                       e.type = ret[s].value.type /\ e.msg # ret[s].value.msg
        /\ (Done(s) /\ ~Fetched(s))
              => /\ ret[s] = Raise(rejected(date, table, output, translation, now), {})
                 /\ ret[s].value \in OtherErrors

C6_Witness ==
    /\ TotalFailure("search") /\ TotalFailure("asearch")
    /\ N("search") >= 1
    /\ ret["search"].value.type = "ValueError"

\* C19 as claimed: lazy shared session.  Whatever the interleaving of the
\* worker threads of a search(), at most one requests.Session is ever
\* created on a client, and self.session, once set, is never replaced.
C19_SingleSession ==
    /\ [](created.session <= 1)
    /\ [][session # <<>> => session' = session]_vars

\* two worker threads of one search() have each found self.session unset and
\* each created a Session; the second assignment replaced the first
C19_Witness ==
    /\ created.session >= 2
    /\ session = <<created.session>>
    /\ Len(urls) >= 2

\* C20 as claimed: bounded fetch concurrency.  At every moment of a search()
\* or an asearch() the number of fetches in flight is at most the configured
\* maximum: max_workers, or the executor's default when it is None.
C20_BoundedConcurrency ==
    running \in Strategies => Cardinality(InFlight) <= PoolSize

\* what holds of the worker pool alone
PoolBounded ==
    running = "search" => Cardinality(InFlight) <= PoolSize

\* an asearch() on a client with max_workers = 1 has more than one fetch in
\* flight
C20_Witness ==
    /\ running = "asearch"
    /\ max_workers = <<1>>
    /\ Cardinality(InFlight) >= 2
    /\ Cardinality(InFlight) = Len(urls)

\* C25: under asearch() at most one ClientSession is created for the
\* client, however many coroutines of _adownload_and_parse the batch has:
\* the test of aio_session and its assignment run without a suspension
\* point between them, and the session once set is the one every coroutine
\* uses.
C25_SingleClientSession ==
    /\ [](created.aio_session <= 1)
    /\ [][aio_session # <<>> => aio_session' = aio_session]_vars

\* a batch of two or more coroutines, all of them past their first step
C25_Witness ==
    /\ running = "asearch"
    /\ Len(task) >= 2
    /\ \A k \in 1..Len(task) : task[k] # "queued"
    /\ created.aio_session = 1
    /\ aio_session = <<1>>

(***************************************************************************)
(* Properties of the calls with every argument (checked under SpecCall).   *)
(***************************************************************************)
\* the rows of what a call returned, whatever its form
RowCount(v) ==
    CASE v.tag = "json" -> Len(v.records)
      [] v.tag = "csv" -> Len(v.lines) - 1
      [] OTHER -> Len(v.rows)

\* C27: whenever search() or asearch() returns normally, what it returns has
\* at least one row, in every output format (df, json, csv, gpd): an empty
\* result is never returned.
C27_NeverEmpty ==
    \A s \in Strategies :
        (ret[s] # Pending /\ ret[s].kind = "return") => RowCount(ret[s].value) >= 1

\* output "gpd" over two days: the first day's file is missing, the second
\* day's file has one row, without coordinates; the merged frame passes the
\* emptiness test of line 286 and _to_geodataframe drops its only row
C27_Witness ==
    /\ output = "gpd" /\ table = "events"
    /\ Len(urls) = 2
    /\ env[1] = Response(404, "none") /\ env[2] = Response(200, "rows")
    /\ \A k \in DOMAIN FileRows(2) : ~notna(FileRows(2)[k])
    /\ ret["search"] # Pending /\ ret["search"].kind = "return"
    /\ ret["search"].value.tag = "GeoDataFrame"
    /\ ret["search"].value.rows = <<>>

\* the arguments are ones search() and asearch() reject: a table or output
\* name the enum lacks, or a date validate_date refuses
Rejects ==
    \/ table \notin { "events", "mentions", "gkg" }
    \/ output \notin { "df", "json", "csv", "gpd" }
    \/ validate_date(date, now) # None

\* C30: validation precedes fetching.  When the table name, the output
\* name or the date is rejected, search() and asearch() raise ValueError
\* with no identifier expanded, no URL built and nothing fetched, and the
\* client's session, aio_session and cached CAMEO table stay as they were.
C30_ValidationFirst ==
    /\ [](Rejects
            => /\ date_strings = NotReturned
               /\ urls = <<>>
               /\ running = "idle"
               /\ created = [session |-> 0, aio_session |-> 0]
               /\ \A s \in Strategies :
                     /\ calls[s] = <<>> /\ dfs[s] = <<>> /\ warned[s] = <<>>
                     /\ ret[s] # Pending
                           => ret[s].kind = "raise" /\ ret[s].value.type = "ValueError")
    /\ [][Rejects => /\ session' = session
                     /\ aio_session' = aio_session
                     /\ cameo_codes' = cameo_codes]_vars

\* an output name the enum lacks, on a client built with its sessions: both
\* calls have raised and the sessions are the ones supplied
C30_Witness ==
    /\ output = "xml" /\ table = "events"
    /\ validate_date(date, now) = None
    /\ session = <<0>> /\ aio_session = <<0>>
    /\ cameo_codes = <<>>
    /\ ret["search"] = Raise(Exc("ValueError", "'xml' is not a valid OutputFormat"), {})
    /\ ret["asearch"] = ret["search"]

====
